---------------------------- MODULE Spec2Model ----------------------------
(***************************************************************************)
(* Cost Optimization Framework: the decision logic of the automation       *)
(* functions (auto-shutdown, right-sizing, cleanup) as state machines.     *)
(*                                                                         *)
(* Encodings used throughout:                                              *)
(*  - a CPU / memory sample is an integer number of percent;               *)
(*  - a mean is kept exact as the pair [s |-> sum, n |-> count], and a     *)
(*    comparison  mean > k  is decided as  s > k * n;                      *)
(*  - a string that the code splits on a separator is the sequence of its  *)
(*    parts: "t3.medium" is <<"t3", "medium">>, the EXCLUDED_TAGS entry    *)
(*    "AutoShutdown=false" is <<"AutoShutdown", "false">>;                 *)
(*  - a tag dict is the set of its <<key, value>> items;                   *)
(*  - money is an integer number of 1/10000 USD (0.0416 USD is 416).       *)
(***************************************************************************)
EXTENDS Integers, Sequences, FiniteSets, TLC

VARIABLES
    prog,               \* which function of the repository this run executes
    pc,                 \* position inside the running handler
    \* ---- aws-lambda/auto_shutdown.py
    EXCLUDED_TAGS,      \* module configuration, split on ','
    SNS_TOPIC_ARN,      \* module configuration (TRUE: a topic is configured)
    instances,          \* ec2.describe_instances(): the running, managed instances
    idx,                \* loop position of the running for-loop
    verdict,            \* per instance: what get_idle_instances decided
    idle_instances,     \* get_idle_instances' result list
    stop_calls,         \* ec2.stop_instances calls issued: <<instance_id, succeeded>>
    shutdown_count,     \* shutdown_instances' counter
    estimated_savings,  \* shutdown_instances' accumulator (1/10000 USD)
    shutdown_results,   \* shutdown_instances' return value
    response,           \* lambda_handler's return value (statusCode)
    notification,       \* the instance ids sent by send_notification
    \* ---- is_instance_idle called on its own
    datapoints,         \* response['Datapoints'] of the metric query
    query_raises,       \* the metric query raises
    idle_ret,           \* [ret, zero_div]: the return value, and whether the
                        \* try body raised ZeroDivisionError
    \* ---- azure-functions/auto_shutdown.py
    az_resources,       \* the resource group: scale sets, then VMs, with their power state
    now,                \* the wall clock: the position in Times
    ticks,              \* timer invocations so far
    current_time,       \* auto_shutdown_compute's local: the instant read at line 67
    current_hour,       \* auto_shutdown_compute's local, read once per tick
    az_idx,             \* loop position inside the tick
    az_shutdown_count,  \* auto_shutdown_compute's counter
    power_off_calls,    \* power_off calls issued: [name, d, h, was (power state),
                        \*   read (current_time of the tick)]
    \* ---- aws-lambda/right_sizing.py and azure-functions/right_sizing.py
    CPU_THRESHOLD_HIGH, \* module configuration (AWS)
    CPU_THRESHOLD_LOW,  \* module configuration (AWS)
    rs_instances,       \* the resources of the batch, each with the metric data
                        \* the monitoring service returns for it
    rs_idx,             \* loop position
    rs_last,            \* the classifier's return value for the resource analysed last
    recommendations,    \* the handler's recommendations list
    report,             \* generate_report's return value
    \* ---- calculate_savings called on its own
    sv_current,         \* current_type
    sv_recommended,     \* recommended_type
    sv_ret,             \* the return value (1/10000 USD)
    \* ---- the size ladders queried on their own
    ld_ladder,          \* "aws" (the sizes list) or "azure" (the SKU matrix)
    ld_tier,            \* the tier asked about
    ld_down,            \* next smaller tier of ld_tier
    ld_up,              \* next larger tier of ld_tier
    ld_up_of_down,      \* next larger tier of ld_down
    ld_down_of_up,      \* next smaller tier of ld_up
    \* ---- azure-functions/cleanup.py
    DRY_RUN,            \* DRY_RUN of the environment, None when unset
    dry_run,            \* dry_run of cleanup_resources (line 146)
    cl_disks,           \* disks.list_by_resource_group(): [name, disk_state]
    cl_vms,             \* virtual_machines.list(): [name, storage_profile, os_disk,
                        \* data_disks, power_state, tags]
    cl_vms_raise,       \* virtual_machines.list() raises
    cl_snapshots,       \* snapshots.list_by_resource_group(): [name, has_time,
                        \* age_hours (now - time_created), tags]
    unattached_disks,   \* find_unattached_disks' result (names)
    unused_snapshots,   \* find_unused_snapshots' result (names)
    idle_vms,           \* find_idle_vms' result (names)
    cl_idx,             \* position of the running delete loop
    delete_calls,       \* delete calls issued: [kind, name, ok]
    \* ---- get_vm_utilization called on its own
    ut_cpu_data,        \* cpu_data: the non-null hourly averages of Percentage CPU
    ut_memory_data,     \* memory_data
    ut_ret              \* the return value

asVars == <<EXCLUDED_TAGS, SNS_TOPIC_ARN, instances, idx, verdict, idle_instances,
            stop_calls, shutdown_count, estimated_savings, shutdown_results,
            response, notification>>
icVars == <<datapoints, query_raises, idle_ret>>
azVars == <<az_resources, now, ticks, current_time, current_hour, az_idx, az_shutdown_count,
            power_off_calls>>
rsVars == <<CPU_THRESHOLD_HIGH, CPU_THRESHOLD_LOW, rs_instances, rs_idx, rs_last,
            recommendations, report>>
svVars == <<sv_current, sv_recommended, sv_ret>>
ldVars == <<ld_ladder, ld_tier, ld_down, ld_up, ld_up_of_down, ld_down_of_up>>
clVars == <<DRY_RUN, dry_run, cl_disks, cl_vms, cl_vms_raise, cl_snapshots, unattached_disks,
            unused_snapshots, idle_vms, cl_idx, delete_calls>>
utVars == <<ut_cpu_data, ut_memory_data, ut_ret>>
vars == <<prog, pc, asVars, icVars, azVars, rsVars, svVars, ldVars, clVars, utVars>>

\* What the actions of one function leave alone.
notAs == <<icVars, azVars, rsVars, svVars, ldVars, clVars, utVars>>
notIc == <<asVars, azVars, rsVars, svVars, ldVars, clVars, utVars>>
notAz == <<asVars, icVars, rsVars, svVars, ldVars, clVars, utVars>>
notRs == <<asVars, icVars, azVars, svVars, ldVars, clVars, utVars>>
notSv == <<asVars, icVars, azVars, rsVars, ldVars, clVars, utVars>>
notLd == <<asVars, icVars, azVars, rsVars, svVars, clVars, utVars>>
notCl == <<asVars, icVars, azVars, rsVars, svVars, ldVars, utVars>>
notUt == <<asVars, icVars, azVars, rsVars, svVars, ldVars, clVars>>

None == "None"

IdleUnused == /\ datapoints = <<>>
              /\ query_raises = FALSE
              /\ idle_ret = None

AwsShutdownUnused ==
    /\ EXCLUDED_TAGS = <<>>
    /\ SNS_TOPIC_ARN = FALSE
    /\ instances = <<>>
    /\ idx = 0
    /\ verdict = <<>>
    /\ idle_instances = <<>>
    /\ stop_calls = <<>>
    /\ shutdown_count = 0
    /\ estimated_savings = 0
    /\ shutdown_results = None
    /\ response = None
    /\ notification = None

AzShutdownUnused ==
    /\ az_resources = <<>>
    /\ now = 0
    /\ ticks = 0
    /\ current_time = 0
    /\ current_hour = 0
    /\ az_idx = 0
    /\ az_shutdown_count = 0
    /\ power_off_calls = {}

RightSizingUnused ==
    /\ CPU_THRESHOLD_HIGH = 0
    /\ CPU_THRESHOLD_LOW = 0
    /\ rs_instances = <<>>
    /\ rs_idx = 0
    /\ rs_last = None
    /\ recommendations = <<>>
    /\ report = None

SavingsUnused ==
    /\ sv_current = <<>>
    /\ sv_recommended = <<>>
    /\ sv_ret = 0

LadderUnused ==
    /\ ld_ladder = None
    /\ ld_tier = None
    /\ ld_down = None
    /\ ld_up = None
    /\ ld_up_of_down = None
    /\ ld_down_of_up = None

CleanupUnused ==
    /\ DRY_RUN = None
    /\ dry_run = TRUE
    /\ cl_disks = <<>>
    /\ cl_vms = <<>>
    /\ cl_vms_raise = FALSE
    /\ cl_snapshots = <<>>
    /\ unattached_disks = <<>>
    /\ unused_snapshots = <<>>
    /\ idle_vms = <<>>
    /\ cl_idx = 0
    /\ delete_calls = <<>>

UtilizationUnused ==
    /\ ut_cpu_data = <<>>
    /\ ut_memory_data = <<>>
    /\ ut_ret = None

\* The variables of the functions a run does not execute stay at rest.
RestAs == /\ IdleUnused /\ AzShutdownUnused /\ RightSizingUnused /\ SavingsUnused
          /\ LadderUnused /\ CleanupUnused /\ UtilizationUnused
RestIc == /\ AwsShutdownUnused /\ AzShutdownUnused /\ RightSizingUnused /\ SavingsUnused
          /\ LadderUnused /\ CleanupUnused /\ UtilizationUnused
RestAz == /\ AwsShutdownUnused /\ IdleUnused /\ RightSizingUnused /\ SavingsUnused
          /\ LadderUnused /\ CleanupUnused /\ UtilizationUnused
RestRs == /\ AwsShutdownUnused /\ IdleUnused /\ AzShutdownUnused /\ SavingsUnused
          /\ LadderUnused /\ CleanupUnused /\ UtilizationUnused
RestSv == /\ AwsShutdownUnused /\ IdleUnused /\ AzShutdownUnused /\ RightSizingUnused
          /\ LadderUnused /\ CleanupUnused /\ UtilizationUnused
RestLd == /\ AwsShutdownUnused /\ IdleUnused /\ AzShutdownUnused /\ RightSizingUnused
          /\ SavingsUnused /\ CleanupUnused /\ UtilizationUnused
RestCl == /\ AwsShutdownUnused /\ IdleUnused /\ AzShutdownUnused /\ RightSizingUnused
          /\ SavingsUnused /\ LadderUnused /\ UtilizationUnused
RestUt == /\ AwsShutdownUnused /\ IdleUnused /\ AzShutdownUnused /\ RightSizingUnused
          /\ SavingsUnused /\ LadderUnused /\ CleanupUnused

-----------------------------------------------------------------------------
(* Bounds and input domains                                                *)

MaxSamples == 5         \* longest enumerated sample series
MaxInstances == 2       \* instances returned by describe_instances

\* Sample values around the 5.0 threshold of is_instance_idle.
IdleCpuValues == {0, 4, 5, 6, 100}

RECURSIVE SeqsUpTo(_, _)
SeqsUpTo(S, n) ==
    IF n = 0 THEN {<<>>}
    ELSE LET shorter == SeqsUpTo(S, n - 1)
         IN shorter \cup {Append(q, x) : q \in {r \in shorter : Len(r) = n - 1}, x \in S}

\* k samples of value lo followed by n - k samples of value hi.
Series(k, n, lo, hi) == [i \in 1..n |-> IF i <= k THEN lo ELSE hi]

\* Scenario A of the specification (95 of 100 samples low), and the
\* boundary series with exactly 80% low samples.
ScenarioSeries == {Series(95, 100, 3, 50), Series(80, 100, 3, 50),
                   Series(81, 100, 3, 50)}

IdleSeries == SeqsUpTo(IdleCpuValues, MaxSamples) \cup ScenarioSeries

-----------------------------------------------------------------------------
(* aws-lambda/auto_shutdown.py                                             *)

\* A tag dict is the set of its <<key, value>> items (keys unique).
\* dict.get(key): the value, or None when the key is absent.
TagGet(tags, key) ==
    IF \E t \in tags : t[1] = key
    THEN (CHOOSE t \in tags : t[1] = key)[2]
    ELSE None

Outcome(raised, value) == [raised |-> raised, value |-> value]

\* The loop over EXCLUDED_TAGS (lines 98-101) followed by the production
\* check (lines 104-107).  "key, value = excluded_tag.split('=')" raises
\* ValueError unless the entry has exactly two parts.
RECURSIVE ExcludeLoop(_, _)
ExcludeLoop(tags, rules) ==
    IF rules = <<>>
    THEN Outcome(FALSE, TagGet(tags, "Environment") = "prod")
    ELSE LET excluded_tag == Head(rules)
         IN IF Len(excluded_tag) # 2
            THEN Outcome(TRUE, FALSE)
            ELSE IF TagGet(tags, excluded_tag[1]) = excluded_tag[2]
                 THEN Outcome(FALSE, TRUE)
                 ELSE ExcludeLoop(tags, Tail(rules))

\* The same loop with the production check left out.
RECURSIVE ExcludeLoopNoProdGuard(_, _)
ExcludeLoopNoProdGuard(tags, rules) ==
    IF rules = <<>>
    THEN Outcome(FALSE, FALSE)
    ELSE LET excluded_tag == Head(rules)
         IN IF Len(excluded_tag) # 2
            THEN Outcome(TRUE, FALSE)
            ELSE IF TagGet(tags, excluded_tag[1]) = excluded_tag[2]
                 THEN Outcome(FALSE, TRUE)
                 ELSE ExcludeLoopNoProdGuard(tags, Tail(rules))

ShouldExcludeNoProdGuard(instance, rules) ==
    ExcludeLoopNoProdGuard(instance.Tags, rules)

should_exclude_instance(instance, rules) == ExcludeLoop(instance.Tags, rules)

LowCpuThreshold == 5        \* dp['Average'] < 5.0
IdleFractionTenths == 8     \* ... > 0.8

low_cpu_datapoints(dps) == SelectSeq(dps, LAMBDA a : a < LowCpuThreshold)

\* len(low) / len(all) > 0.8.  The quotient of two list lengths is the double
\* nearest to the exact ratio, and 0.8 is the double nearest to 4/5, so the
\* comparison agrees with the exact one; a zero divisor raises.
FractionAbove(low, total) ==
    IF total = 0 THEN "ZeroDivisionError"
    ELSE IF low * 10 > IdleFractionTenths * total THEN "True" ELSE "False"

\* The try body without the "no data points" early return.
IdleTryBodyNoShortCircuit(dps, raises) ==
    IF raises THEN "QueryError"
    ELSE FractionAbove(Len(low_cpu_datapoints(dps)), Len(dps))

\* The try body comparing with >= instead of >.
IdleTryBodyGeq(dps, raises) ==
    IF raises THEN "QueryError"
    ELSE IF Len(dps) = 0 THEN "True"
    ELSE IF Len(low_cpu_datapoints(dps)) * 10 >= IdleFractionTenths * Len(dps)
         THEN "True" ELSE "False"

\* The try body of is_instance_idle (lines 114-132).
IdleTryBody(dps, raises) ==
    IF raises THEN "QueryError"
    ELSE IF Len(dps) = 0 THEN "True"
    ELSE FractionAbove(Len(low_cpu_datapoints(dps)), Len(dps))

\* is_instance_idle with an except clause that returns True.
IsInstanceIdleTrueOnError(dps, raises) ==
    LET body == IdleTryBody(dps, raises)
    IN [ret |-> (body # "False"), zero_div |-> (body = "ZeroDivisionError")]

\* is_instance_idle: any exception of the try body is caught and gives False.
is_instance_idle(dps, raises) ==
    LET body == IdleTryBody(dps, raises)
    IN [ret |-> (body = "True"), zero_div |-> (body = "ZeroDivisionError")]

\* get_instance_hourly_rate (1/10000 USD per hour); 0.05 for an unknown type.
DefaultRate == 500
get_instance_hourly_rate(instance_type) ==
    CASE instance_type = <<"t3", "micro">>  -> 104
      [] instance_type = <<"t3", "small">>  -> 208
      [] instance_type = <<"t3", "medium">> -> 416
      [] instance_type = <<"m5", "large">>  -> 960
      [] instance_type = <<"m5", "xlarge">> -> 1920
      [] OTHER -> DefaultRate

HoursPerDay == 24
DaysPerMonth == 30

\* round(x, 2) of an amount in 1/10000 USD, as an amount in 1/10000 USD.
\* Every amount the model produces is a multiple of 20/10000 USD, so the
\* half-way case of rounding does not arise.
Round2(x) == ((x + 50) \div 100) * 100

\* ---- inputs of a run
MaxRunSamples == 1
RunSeries == SeqsUpTo({3, 50}, MaxRunSamples)

AwsTagDicts == { {}, {<<"Environment", "prod">>}, {<<"Environment", "dev">>},
                 {<<"AutoShutdown", "false">>} }
AwsShutdownTypes == { <<"t3", "micro">>, <<"c5", "large">> }

\* EXCLUDED_TAGS after split(','): the default, a rule contradicting the
\* production guard, both, and an entry that is not of the form key=value.
ExcludedTagConfigs ==
    { << <<"AutoShutdown", "false">> >>,
      << <<"Environment", "dev">> >>,
      << <<"AutoShutdown", "false">>, <<"Environment", "dev">> >>,
      << <<"AutoShutdown", "false">>, <<"nokey">> >> }

InstanceLists ==
    UNION { { [k \in 1..n |-> [InstanceId |-> k, InstanceType |-> f[k][1], Tags |-> f[k][2]]]
              : f \in [1..n -> AwsShutdownTypes \X AwsTagDicts] }
            : n \in 1..MaxInstances }

\* State at the entry of lambda_handler.
InitAwsShutdown ==
    /\ prog = "aws_auto_shutdown"
    /\ pc = "get_idle"
    /\ EXCLUDED_TAGS \in ExcludedTagConfigs
    /\ SNS_TOPIC_ARN \in BOOLEAN
    /\ instances \in InstanceLists
    /\ idx = 1
    /\ verdict = [k \in 1..Len(instances) |-> "pending"]
    /\ idle_instances = <<>>
    /\ stop_calls = <<>>
    /\ shutdown_count = 0
    /\ estimated_savings = 0
    /\ shutdown_results = None
    /\ response = None
    /\ notification = None
    /\ RestAs

\* One iteration of the loop of get_idle_instances (lines 73-87).  A
\* ValueError of should_exclude_instance leaves get_idle_instances and is
\* caught by lambda_handler (lines 48-55).
AsClassify ==
    /\ prog = "aws_auto_shutdown"
    /\ pc = "get_idle"
    /\ idx <= Len(instances)
    /\ LET instance == instances[idx]
           ex == should_exclude_instance(instance, EXCLUDED_TAGS)
       IN IF ex.raised
          THEN /\ verdict' = [verdict EXCEPT ![idx] = "raised"]
               /\ response' = 500
               /\ pc' = "done"
               /\ UNCHANGED <<idx, idle_instances>>
          ELSE IF ex.value
          THEN /\ verdict' = [verdict EXCEPT ![idx] = "excluded"]
               /\ idx' = idx + 1
               /\ UNCHANGED <<response, pc, idle_instances>>
          ELSE \E dps \in RunSeries, raises \in BOOLEAN :
                 LET r == is_instance_idle(dps, raises)
                 IN /\ verdict' = [verdict EXCEPT ![idx] =
                                     IF raises THEN "query_error"
                                     ELSE IF r.ret THEN "idle" ELSE "not_idle"]
                    /\ idle_instances' =
                         IF r.ret
                         THEN Append(idle_instances,
                                     [instance_id |-> instance.InstanceId,
                                      instance_type |-> instance.InstanceType,
                                      tags |-> instance.Tags])
                         ELSE idle_instances
                    /\ idx' = idx + 1
                    /\ UNCHANGED <<response, pc>>
    /\ UNCHANGED <<prog, EXCLUDED_TAGS, SNS_TOPIC_ARN, instances, stop_calls,
                   shutdown_count, estimated_savings, shutdown_results,
                   notification, notAs>>

\* get_idle_instances returns; lambda_handler calls shutdown_instances.
AsGetIdleReturn ==
    /\ prog = "aws_auto_shutdown"
    /\ pc = "get_idle"
    /\ idx > Len(instances)
    /\ pc' = "shutdown"
    /\ idx' = 1
    /\ UNCHANGED <<prog, EXCLUDED_TAGS, SNS_TOPIC_ARN, instances, verdict,
                   idle_instances, stop_calls, shutdown_count, estimated_savings,
                   shutdown_results, response, notification, notAs>>

\* One iteration of the loop of shutdown_instances (lines 145-158): the
\* stop call succeeds or raises.
AsStop ==
    /\ prog = "aws_auto_shutdown"
    /\ pc = "shutdown"
    /\ idx <= Len(idle_instances)
    /\ \E ok \in BOOLEAN :
         LET instance == idle_instances[idx]
             hourly_rate == get_instance_hourly_rate(instance.instance_type)
         IN /\ stop_calls' = Append(stop_calls, <<instance.instance_id, ok>>)
            /\ estimated_savings' =
                 IF ok THEN estimated_savings + hourly_rate * HoursPerDay * DaysPerMonth
                 ELSE estimated_savings
            /\ shutdown_count' = IF ok THEN shutdown_count + 1 ELSE shutdown_count
    /\ idx' = idx + 1
    /\ UNCHANGED <<prog, pc, EXCLUDED_TAGS, SNS_TOPIC_ARN, instances, verdict,
                   idle_instances, shutdown_results, response, notification, notAs>>

\* shutdown_instances returns (lines 160-164); lambda_handler notifies
\* (lines 36-37, 180-203) and returns 200.
AsFinish ==
    /\ prog = "aws_auto_shutdown"
    /\ pc = "shutdown"
    /\ idx > Len(idle_instances)
    /\ LET results ==
             [shutdown_count |-> shutdown_count,
              estimated_savings |-> Round2(estimated_savings),
              instances |-> [k \in 1..shutdown_count |-> idle_instances[k].instance_id]]
       IN /\ shutdown_results' = results
          /\ notification' =
               IF SNS_TOPIC_ARN /\ shutdown_count > 0
               THEN [sent |-> TRUE, instances |-> results.instances]
               ELSE [sent |-> FALSE, instances |-> <<>>]
    /\ response' = 200
    /\ pc' = "done"
    /\ UNCHANGED <<prog, EXCLUDED_TAGS, SNS_TOPIC_ARN, instances, idx, verdict,
                   idle_instances, stop_calls, shutdown_count, estimated_savings,
                   notAs>>

-----------------------------------------------------------------------------
(* is_instance_idle on its own: one metric query, one classification       *)

InitIdle ==
    /\ prog = "is_instance_idle"
    /\ pc = "call"
    /\ datapoints \in IdleSeries
    /\ query_raises \in BOOLEAN
    /\ idle_ret = None
    /\ RestIc

IdleCall ==
    /\ prog = "is_instance_idle"
    /\ pc = "call"
    /\ idle_ret' = is_instance_idle(datapoints, query_raises)
    /\ pc' = "done"
    /\ UNCHANGED <<prog, datapoints, query_raises, notIc>>

NextIdle == IdleCall
SpecIdle == InitIdle /\ [][NextIdle]_vars

\* The number of samples of a series strictly below a value.
CountBelow(dps, limit) == Cardinality({k \in DOMAIN dps : dps[k] < limit})

\* C3: when the metric query returns zero samples, is_instance_idle returns
\* True, and for no input at all does the fraction computation divide by a
\* zero sample count.
C3_NoSamplesIsIdle ==
    (prog = "is_instance_idle" /\ pc = "done") =>
        /\ ~idle_ret.zero_div
        /\ (~query_raises /\ Len(datapoints) = 0) => idle_ret.ret

C3_Witness ==
    /\ prog = "is_instance_idle" /\ pc = "done"
    /\ ~query_raises /\ datapoints = <<>>
    /\ idle_ret.ret

\* C4: for a non-empty series, is_instance_idle returns True exactly when
\* (samples strictly below 5.0) / (all samples) is strictly greater than 0.8,
\* i.e. 5 * low > 4 * all; 80 of 100 low samples is not idle, 95 of 100 is.
C4_IdleIffFractionAbove ==
    (prog = "is_instance_idle" /\ pc = "done" /\ ~query_raises /\ Len(datapoints) > 0) =>
        /\ idle_ret.ret <=> (5 * CountBelow(datapoints, 5) > 4 * Len(datapoints))
        /\ (Len(datapoints) = 100 /\ CountBelow(datapoints, 5) = 80) => ~idle_ret.ret
        /\ (Len(datapoints) = 100 /\ CountBelow(datapoints, 5) = 95) => idle_ret.ret

C4_Witness ==
    /\ prog = "is_instance_idle" /\ pc = "done" /\ ~query_raises
    /\ Len(datapoints) = 100 /\ CountBelow(datapoints, 5) = 95
    /\ idle_ret.ret

-----------------------------------------------------------------------------
(* azure-functions/auto_shutdown.py                                        *)

\* str.lower() on the tag values that occur.
Lower(str) ==
    CASE str = "True" -> "true"
      [] str = "TRUE" -> "true"
      [] str = "Prod" -> "prod"
      [] str = "PROD" -> "prod"
      [] str = "False" -> "false"
      [] str = "FALSE" -> "false"
      [] str = "Permanent" -> "permanent"
      [] str = "PERMANENT" -> "permanent"
      [] OTHER -> str

\* tags.get(key, '')
TagGetOrEmpty(tags, key) ==
    IF \E t \in tags : t[1] = key
    THEN (CHOOSE t \in tags : t[1] = key)[2]
    ELSE ""

FirstShutdownHour == 18     \* current_hour >= 18
FirstWeekendDay == 5        \* current_day < 5: Monday (0) to Friday (4)

\* should_shutdown_vm, without the production check of lines 32-34.
ShouldShutdownNoProdGuard(vm, auto_shutdown_tag, hour, current_day) ==
    IF Lower(TagGetOrEmpty(vm.tags, "AutoShutdown")) # "true" THEN FALSE
    ELSE IF auto_shutdown_tag = "weekdays" /\ hour >= FirstShutdownHour
         THEN current_day < FirstWeekendDay
         ELSE auto_shutdown_tag = "always"

\* should_shutdown_vm(vm, auto_shutdown_tag, current_hour); current_day is
\* what datetime.now(timezone.utc).weekday() returns at line 39.
should_shutdown_vm(vm, auto_shutdown_tag, hour, current_day) ==
    IF Lower(TagGetOrEmpty(vm.tags, "AutoShutdown")) # "true" THEN FALSE
    ELSE IF Lower(TagGetOrEmpty(vm.tags, "Environment")) = "prod" THEN FALSE
    ELSE IF auto_shutdown_tag = "weekdays" /\ hour >= FirstShutdownHour
         THEN current_day < FirstWeekendDay
         ELSE auto_shutdown_tag = "always"

\* ---- inputs
MaxTicks == 2

\* Instants the wall clock passes through, in order (d: weekday, Monday = 0).
Times == << [d |-> 4, h |-> 17], [d |-> 4, h |-> 18],
            [d |-> 6, h |-> 23], [d |-> 0, h |-> 0] >>

AzTagDicts ==
    { {},
      {<<"AutoShutdown", "true">>},
      {<<"AutoShutdown", "True">>, <<"Environment", "prod">>} }

AzShapes == [kind : {"vmss", "vm"}, tags : AzTagDicts, power : {"running", "deallocated"}]

\* virtual_machine_scale_sets.list() is processed before virtual_machines.list().
AzResourceLists ==
    UNION { { [k \in 1..n |-> [name |-> k, kind |-> f[k].kind, tags |-> f[k].tags,
                                power |-> f[k].power]]
              : f \in { g \in [1..n -> AzShapes] :
                          \A a, b \in 1..n : (a < b /\ g[a].kind = "vm") => g[b].kind = "vm" } }
            : n \in 1..MaxInstances }

InitAzShutdown ==
    /\ prog = "azure_auto_shutdown"
    /\ pc = "idle"
    /\ az_resources \in AzResourceLists
    /\ now \in 1..Len(Times)
    /\ ticks = 0
    /\ current_time = 0
    /\ current_hour = 0
    /\ az_idx = 0
    /\ az_shutdown_count = 0
    /\ power_off_calls = {}
    /\ RestAz

\* The timer fires: auto_shutdown_compute reads the hour (lines 66-70).
AzTimerStart ==
    /\ prog = "azure_auto_shutdown"
    /\ pc = "idle"
    /\ ticks < MaxTicks
    /\ ticks' = ticks + 1
    /\ current_time' = now
    /\ current_hour' = Times[now].h
    /\ az_shutdown_count' = 0
    /\ az_idx' = 1
    /\ pc' = "loop"
    /\ UNCHANGED <<prog, az_resources, now, power_off_calls, notAz>>

\* One iteration of the scale-set loop (lines 74-85) or of the VM loop
\* (lines 89-106); the power_off call succeeds or raises.
AzProcess ==
    /\ prog = "azure_auto_shutdown"
    /\ pc = "loop"
    /\ az_idx <= Len(az_resources)
    /\ LET vm == az_resources[az_idx]
           issue == /\ should_shutdown_vm(vm, "weekdays", current_hour, Times[now].d)
                    /\ (vm.kind = "vm" => vm.power = "running")
       IN IF issue
          THEN \E ok \in BOOLEAN :
                 /\ power_off_calls' = power_off_calls \cup
                      {[name |-> vm.name, d |-> Times[now].d, h |-> Times[now].h,
                        was |-> vm.power, read |-> current_time]}
                 /\ az_shutdown_count' = IF ok THEN az_shutdown_count + 1
                                         ELSE az_shutdown_count
                 /\ az_resources' = IF ok
                                    THEN [az_resources EXCEPT ![az_idx].power = "stopped"]
                                    ELSE az_resources
          ELSE UNCHANGED <<power_off_calls, az_shutdown_count, az_resources>>
    /\ az_idx' = az_idx + 1
    /\ UNCHANGED <<prog, pc, now, ticks, current_time, current_hour, notAz>>

\* auto_shutdown_compute returns (line 108).
AzTimerEnd ==
    /\ prog = "azure_auto_shutdown"
    /\ pc = "loop"
    /\ az_idx > Len(az_resources)
    /\ pc' = "idle"
    /\ UNCHANGED <<prog, az_resources, now, ticks, current_time, current_hour, az_idx,
                   az_shutdown_count, power_off_calls, notAz>>

\* Time passes, also while a tick is running.
AzClockAdvance ==
    /\ prog = "azure_auto_shutdown"
    /\ now < Len(Times)
    /\ now' = now + 1
    /\ UNCHANGED <<prog, pc, az_resources, ticks, current_time, current_hour, az_idx,
                   az_shutdown_count, power_off_calls, notAz>>

-----------------------------------------------------------------------------
(* The two auto-shutdown functions                                         *)

InitShutdown == InitAwsShutdown \/ InitAzShutdown
NextShutdown ==
    \/ AsClassify
    \/ AsGetIdleReturn
    \/ AsStop
    \/ AsFinish
    \/ AzTimerStart
    \/ AzProcess
    \/ AzTimerEnd
    \/ AzClockAdvance
SpecShutdown == InitShutdown /\ [][NextShutdown]_vars

IsProd(tags) == TagGet(tags, "Environment") = "prod"

\* C1: neither auto-shutdown function stops or powers off a resource whose
\* Environment tag is "prod", whatever EXCLUDED_TAGS holds and whatever the
\* metric query would return.
C1_ProdNeverStopped ==
    /\ \A k \in 1..Len(stop_calls) :
         \A m \in 1..Len(instances) :
            instances[m].InstanceId = stop_calls[k][1] => ~IsProd(instances[m].Tags)
    /\ \A k \in 1..Len(idle_instances) : ~IsProd(idle_instances[k].tags)
    /\ \A c \in power_off_calls :
         \A m \in 1..Len(az_resources) :
            az_resources[m].name = c.name => ~IsProd(az_resources[m].tags)

\* A finished AWS run under the contradicting rule Environment=dev alone: the
\* production instance was skipped while another instance was stopped.
C1_Witness ==
    /\ prog = "aws_auto_shutdown" /\ pc = "done"
    /\ EXCLUDED_TAGS = << <<"Environment", "dev">> >>
    /\ \E m \in 1..Len(instances) :
         IsProd(instances[m].Tags) /\ verdict[m] = "excluded"
    /\ \E k \in 1..Len(stop_calls) : stop_calls[k][2]

\* The Azure side of the same case: a tick powered a resource off while a
\* production resource with AutoShutdown enabled was left alone.
AzProdSkipped ==
    /\ prog = "azure_auto_shutdown" /\ pc = "idle" /\ ticks > 0
    /\ az_shutdown_count > 0
    /\ \E m \in 1..Len(az_resources) :
         /\ IsProd(az_resources[m].tags)
         /\ Lower(TagGetOrEmpty(az_resources[m].tags, "AutoShutdown")) = "true"
         /\ az_resources[m].power = "running"

-----------------------------------------------------------------------------
(* aws-lambda/right_sizing.py                                              *)

RECURSIVE Sum(_)
Sum(seq) == IF seq = <<>> THEN 0 ELSE Head(seq) + Sum(Tail(seq))

\* The largest element of a non-empty series.
Max(seq) == CHOOSE x \in {seq[k] : k \in DOMAIN seq} :
                \A y \in {seq[k] : k \in DOMAIN seq} : y <= x

\* statistics.mean / sum(...) / len(...), kept exact; n = 0 stands for None.
Mean(seq) == [s |-> Sum(seq), n |-> Len(seq)]
NoMean == [s |-> 0, n |-> 0]
IsNone(avg) == avg.n = 0
Above(avg, k) == avg.s > k * avg.n      \* avg > k
Below(avg, k) == avg.s < k * avg.n      \* avg < k

MEMORY_THRESHOLD_HIGH == 80
MEMORY_THRESHOLD_LOW == 10

sizes == <<"nano", "micro", "small", "medium", "large", "xlarge", "2xlarge", "4xlarge">>

\* list.index: the position, 0 standing for ValueError.
IndexOf(seq, x) ==
    IF \E k \in DOMAIN seq : seq[k] = x
    THEN CHOOSE k \in DOMAIN seq : seq[k] = x /\ \A j \in 1..(k - 1) : seq[j] # x
    ELSE 0

get_next_size_up(current_size) ==
    LET current_index == IndexOf(sizes, current_size)
    IN IF current_index # 0 /\ current_index < Len(sizes)
       THEN sizes[current_index + 1]
       ELSE None

\* get_next_size_down reading the list one position too high.
GetNextSizeDownSamePosition(current_size) ==
    LET current_index == IndexOf(sizes, current_size)
    IN IF current_index > 1
       THEN sizes[current_index]
       ELSE None

get_next_size_down(current_size) ==
    LET current_index == IndexOf(sizes, current_size)
    IN IF current_index > 1
       THEN sizes[current_index - 1]
       ELSE None

\* hourly_rates.get(instance_type, 0.05), in 1/10000 USD.
RsDefaultRate == 500
hourly_rates_get(instance_type) ==
    CASE instance_type = <<"t3", "micro">>  -> 104
      [] instance_type = <<"t3", "small">>  -> 208
      [] instance_type = <<"t3", "medium">> -> 416
      [] instance_type = <<"m5", "large">>  -> 960
      [] instance_type = <<"m5", "xlarge">> -> 1920
      [] OTHER -> RsDefaultRate

RsHoursPerDay == 24
RsDaysPerMonth == 30

\* calculate_savings charging a week instead of a month.
CalculateSavingsWeek(current_type, recommended_type) ==
    LET current_rate == hourly_rates_get(current_type)
        recommended_rate == hourly_rates_get(recommended_type)
    IN IF recommended_rate < current_rate
       THEN (current_rate - recommended_rate) * RsHoursPerDay * 7
       ELSE 0

calculate_savings(current_type, recommended_type) ==
    LET current_rate == hourly_rates_get(current_type)
        recommended_rate == hourly_rates_get(recommended_type)
    IN IF recommended_rate < current_rate
       THEN (current_rate - recommended_rate) * RsHoursPerDay * RsDaysPerMonth
       ELSE 0

get_instance_family(instance_type) == instance_type[1]
get_instance_size(instance_type) == instance_type[2]

NoChange(current_type) ==
    [recommended_type |-> current_type, reason |-> <<"No change recommended">>,
     savings |-> 0, confidence |-> "Low"]

ScaleUp(current_type) ==
    LET new_size == get_next_size_up(get_instance_size(current_type))
    IN IF new_size # None
       THEN [recommended_type |-> <<get_instance_family(current_type), new_size>>,
             reason |-> <<"High CPU utilization - scale up">>,
             savings |-> 0, confidence |-> "High"]
       ELSE NoChange(current_type)

ScaleDown(current_type) ==
    LET new_size == get_next_size_down(get_instance_size(current_type))
        recommended_type == <<get_instance_family(current_type), new_size>>
    IN IF new_size # None
       THEN [recommended_type |-> recommended_type,
             reason |-> <<"Low CPU utilization - scale down">>,
             savings |-> calculate_savings(current_type, recommended_type),
             confidence |-> "Medium"]
       ELSE NoChange(current_type)

\* Lines 175-191 with the two branches tested in the other order.
CpuRecommendationLowFirst(current_type, avg_cpu) ==
    IF Below(avg_cpu, CPU_THRESHOLD_LOW) THEN ScaleDown(current_type)
    ELSE IF Above(avg_cpu, CPU_THRESHOLD_HIGH) THEN ScaleUp(current_type)
    ELSE NoChange(current_type)

\* Lines 175-191 with the scale-down test made against the high threshold.
CpuRecommendationBelowHigh(current_type, avg_cpu) ==
    IF Above(avg_cpu, CPU_THRESHOLD_HIGH) THEN ScaleUp(current_type)
    ELSE IF Below(avg_cpu, CPU_THRESHOLD_HIGH) THEN ScaleDown(current_type)
    ELSE NoChange(current_type)

\* CPU-based recommendations (lines 175-191).
CpuRecommendation(current_type, avg_cpu) ==
    IF Above(avg_cpu, CPU_THRESHOLD_HIGH) THEN ScaleUp(current_type)
    ELSE IF Below(avg_cpu, CPU_THRESHOLD_LOW) THEN ScaleDown(current_type)
    ELSE NoChange(current_type)

\* Memory-based recommendations (lines 193-199).
MemoryRecommendation(rec, avg_memory) ==
    IF IsNone(avg_memory) THEN rec
    ELSE IF Above(avg_memory, MEMORY_THRESHOLD_HIGH)
         THEN [rec EXCEPT !.reason = Append(@, "High memory utilization"),
                          !.confidence = "High"]
    ELSE IF Below(avg_memory, MEMORY_THRESHOLD_LOW)
         THEN [rec EXCEPT !.reason = Append(@, "Low memory utilization")]
    ELSE rec

get_right_sizing_recommendation(current_type, avg_cpu, avg_memory) ==
    MemoryRecommendation(CpuRecommendation(current_type, avg_cpu), avg_memory)

\* analyze_instance: [called, rec] is what get_right_sizing_recommendation
\* returned (if it was reached), [some, entry] the function's return value
\* (some = FALSE: None).  instance.cpu and instance.memory are what
\* get_metric_data returns, [] after a failed query.  A type without a '.'
\* raises IndexError in get_instance_size, which line 131 catches.
analyze_instance(instance) ==
    LET current_type == instance.instance_type
        avg_cpu == Mean(instance.cpu)
        avg_memory == IF instance.memory # <<>> THEN Mean(instance.memory) ELSE NoMean
        rec == get_right_sizing_recommendation(current_type, avg_cpu, avg_memory)
    IN IF instance.cpu = <<>> \/ Len(current_type) < 2
       THEN [called |-> FALSE, some |-> FALSE]
       ELSE IF rec.recommended_type # current_type
       THEN [called |-> TRUE, rec |-> rec, some |-> TRUE,
             entry |-> [instance_id |-> instance.instance_id,
                        current_type |-> current_type,
                        recommended_type |-> rec.recommended_type,
                        avg_cpu |-> avg_cpu,
                        avg_memory |-> avg_memory,
                        reason |-> rec.reason,
                        estimated_savings |-> rec.savings,
                        confidence |-> rec.confidence]]
       ELSE [called |-> TRUE, rec |-> rec, some |-> FALSE]

\* generate_report rounding every entry before the sum instead of the sum.
GenerateReportRoundEach(recs) ==
    [total_recommendations |-> Len(recs),
     total_savings |-> Sum([k \in DOMAIN recs |-> Round2(recs[k].estimated_savings)]),
     recommendations |-> recs]

\* generate_report
generate_report(recs) ==
    [total_recommendations |-> Len(recs),
     total_savings |-> Round2(Sum([k \in DOMAIN recs |-> recs[k].estimated_savings])),
     recommendations |-> recs]

\* The loop of lambda_handler with analyze_instance letting its exception out:
\* the first resource that cannot be analysed ends the loop.
RsAnalyzeFailFast ==
    /\ prog = "aws_right_sizing"
    /\ pc = "analyze"
    /\ rs_idx <= Len(rs_instances)
    /\ LET recommendation == analyze_instance(rs_instances[rs_idx])
       IN /\ rs_last' = IF recommendation.called
                        THEN [called |-> TRUE, rec |-> recommendation.rec]
                        ELSE [called |-> FALSE]
          /\ recommendations' = IF recommendation.some
                                THEN Append(recommendations, recommendation.entry)
                                ELSE recommendations
          /\ rs_idx' = IF recommendation.called THEN rs_idx + 1
                       ELSE Len(rs_instances) + 1
    /\ UNCHANGED <<prog, pc, CPU_THRESHOLD_HIGH, CPU_THRESHOLD_LOW, rs_instances,
                   report, notRs>>

\* The loop of lambda_handler analysing every instance with the metric data
\* of the first instance of the batch.
RsAnalyzeSharedSamples ==
    /\ prog = "aws_right_sizing"
    /\ pc = "analyze"
    /\ rs_idx <= Len(rs_instances)
    /\ LET recommendation ==
             analyze_instance([rs_instances[rs_idx] EXCEPT !.cpu = rs_instances[1].cpu])
       IN /\ rs_last' = IF recommendation.called
                        THEN [called |-> TRUE, rec |-> recommendation.rec]
                        ELSE [called |-> FALSE]
          /\ recommendations' = IF recommendation.some
                                THEN Append(recommendations, recommendation.entry)
                                ELSE recommendations
    /\ rs_idx' = rs_idx + 1
    /\ UNCHANGED <<prog, pc, CPU_THRESHOLD_HIGH, CPU_THRESHOLD_LOW, rs_instances,
                   report, notRs>>

\* One iteration of the loop of lambda_handler (lines 38-41).
RsAnalyze ==
    /\ prog = "aws_right_sizing"
    /\ pc = "analyze"
    /\ rs_idx <= Len(rs_instances)
    /\ LET recommendation == analyze_instance(rs_instances[rs_idx])
       IN /\ rs_last' = IF recommendation.called
                        THEN [called |-> TRUE, rec |-> recommendation.rec]
                        ELSE [called |-> FALSE]
          /\ recommendations' = IF recommendation.some
                                THEN Append(recommendations, recommendation.entry)
                                ELSE recommendations
    /\ rs_idx' = rs_idx + 1
    /\ UNCHANGED <<prog, pc, CPU_THRESHOLD_HIGH, CPU_THRESHOLD_LOW, rs_instances,
                   report, notRs>>

\* lambda_handler generates the report and returns (lines 43-58).
RsReport ==
    /\ prog = "aws_right_sizing"
    /\ pc = "analyze"
    /\ rs_idx > Len(rs_instances)
    /\ report' = generate_report(recommendations)
    /\ pc' = "done"
    /\ UNCHANGED <<prog, CPU_THRESHOLD_HIGH, CPU_THRESHOLD_LOW, rs_instances, rs_idx,
                   rs_last, recommendations, notRs>>

-----------------------------------------------------------------------------
(* azure-functions/right_sizing.py                                         *)

\* The number 0 that get_vm_utilization reports for an empty series.
Zero == [s |-> 0, n |-> 1]

\* get_vm_utilization: cpu_data / memory_data are the non-null averages
\* collected at lines 52-62.
get_vm_utilization(cpu_data, memory_data) ==
    [cpu_avg |-> IF cpu_data # <<>> THEN Mean(cpu_data) ELSE Zero,
     cpu_max |-> IF cpu_data # <<>> THEN Max(cpu_data) ELSE 0,
     memory_avg |-> IF memory_data # <<>> THEN Mean(memory_data) ELSE Zero,
     cpu_samples |-> Len(cpu_data),
     memory_samples |-> Len(memory_data)]

\* The recommendation matrix (lines 78-88), smallest SKU first.
sku_ladder == <<"Standard_B1s", "Standard_B1ms", "Standard_B2s", "Standard_B2ms",
                "Standard_B4ms", "Standard_B8ms", "Standard_B12ms", "Standard_B16ms",
                "Standard_B20ms">>

sku_next(sku) ==
    CASE sku = "Standard_B1s"   -> "Standard_B1ms"
      [] sku = "Standard_B1ms"  -> "Standard_B2s"
      [] sku = "Standard_B2s"   -> "Standard_B2ms"
      [] sku = "Standard_B2ms"  -> "Standard_B4ms"
      [] sku = "Standard_B4ms"  -> "Standard_B8ms"
      [] sku = "Standard_B8ms"  -> "Standard_B12ms"
      [] sku = "Standard_B12ms" -> "Standard_B16ms"
      [] sku = "Standard_B16ms" -> "Standard_B20ms"
      [] sku = "Standard_B20ms" -> None

sku_prev(sku) ==
    CASE sku = "Standard_B1s"   -> None
      [] sku = "Standard_B1ms"  -> "Standard_B1s"
      [] sku = "Standard_B2s"   -> "Standard_B1ms"
      [] sku = "Standard_B2ms"  -> "Standard_B2s"
      [] sku = "Standard_B4ms"  -> "Standard_B2ms"
      [] sku = "Standard_B8ms"  -> "Standard_B4ms"
      [] sku = "Standard_B12ms" -> "Standard_B8ms"
      [] sku = "Standard_B16ms" -> "Standard_B12ms"
      [] sku = "Standard_B20ms" -> "Standard_B16ms"

\* sku_info['next'] / sku_info['prev'] behind the guard of lines 90-91: a SKU
\* outside the matrix is answered 'unknown' and no SKU is looked up.
sku_info_next(current_sku) ==
    IF IndexOf(sku_ladder, current_sku) = 0 THEN None ELSE sku_next(current_sku)
sku_info_prev(current_sku) ==
    IF IndexOf(sku_ladder, current_sku) = 0 THEN None ELSE sku_prev(current_sku)

AzLowAvg == 20      \* cpu_avg < 20
AzLowMax == 40      \* cpu_max < 40
AzHighAvg == 80     \* cpu_avg > 80
AzHighMax == 90     \* cpu_max > 90

\* get_right_sizing_recommendation of azure-functions/right_sizing.py.
az_get_right_sizing_recommendation(current_sku, utilization) ==
    IF IndexOf(sku_ladder, current_sku) = 0
    THEN [action |-> "unknown", reason |-> "SKU not in recommendation matrix"]
    ELSE IF /\ Below(utilization.cpu_avg, AzLowAvg)
            /\ utilization.cpu_max < AzLowMax
            /\ sku_prev(current_sku) # None
    THEN [action |-> "downsize", recommended_sku |-> sku_prev(current_sku),
          reason |-> "Low utilization", potential_savings |-> "20-30%"]
    ELSE IF Above(utilization.cpu_avg, AzHighAvg) \/ utilization.cpu_max > AzHighMax
    THEN IF sku_next(current_sku) # None
         THEN [action |-> "upsize", recommended_sku |-> sku_next(current_sku),
               reason |-> "High utilization",
               potential_savings |-> "N/A - performance improvement"]
         ELSE [action |-> "monitor",
               reason |-> "High utilization but already at largest SKU"]
    ELSE [action |-> "optimal", reason |-> "Current utilization is optimal"]

\* One iteration of the scale-set loop (lines 150-172) or of the VM loop
\* (lines 176-198) of right_sizing_analysis.  resource.raises: the metric
\* query raises, which the loop body catches and logs.
AzRsAnalyze ==
    /\ prog = "azure_right_sizing"
    /\ pc = "analyze"
    /\ rs_idx <= Len(rs_instances)
    /\ LET resource == rs_instances[rs_idx]
           utilization == get_vm_utilization(resource.cpu, resource.memory)
           recommendation == az_get_right_sizing_recommendation(resource.sku, utilization)
       IN IF resource.raises \/ utilization.cpu_samples = 0
          THEN /\ rs_last' = [called |-> FALSE]
               /\ UNCHANGED recommendations
          ELSE /\ rs_last' = [called |-> TRUE, rec |-> recommendation]
               /\ recommendations' =
                    IF recommendation.action # "optimal"
                    THEN Append(recommendations,
                                [resource_type |-> resource.kind,
                                 resource_name |-> resource.name,
                                 current_sku |-> resource.sku,
                                 utilization |-> utilization,
                                 recommendation |-> recommendation])
                    ELSE recommendations
    /\ rs_idx' = rs_idx + 1
    /\ UNCHANGED <<prog, pc, CPU_THRESHOLD_HIGH, CPU_THRESHOLD_LOW, rs_instances,
                   report, notRs>>

\* right_sizing_analysis logs the recommendations and returns (lines 200-206).
AzRsFinish ==
    /\ prog = "azure_right_sizing"
    /\ pc = "analyze"
    /\ rs_idx > Len(rs_instances)
    /\ pc' = "done"
    /\ UNCHANGED <<prog, rsVars, notRs>>

-----------------------------------------------------------------------------
(* Right-sizing: one resource with any utilization profile                 *)

MaxRsSamples == 2

\* Sample values on and around every threshold of the two classifiers.
CpuValues == {5, 10, 15, 20, 40, 50, 80, 85, 90, 95}
\* A low mean with one burst (mean 5, max 50; mean 14, max 95).
BurstSeries == {Series(9, 10, 0, 50), Series(9, 10, 5, 95)}
CpuSeries == SeqsUpTo(CpuValues, MaxRsSamples) \cup BurstSeries
MemorySeries == {<<>>, <<5>>, <<50>>, <<90>>}
RsTagDicts == { {}, {<<"Environment", "prod">>} }

\* Bottom, middle and top of the size list, priced and unpriced types, and a
\* size that is not in the list.
RsTypes == { <<"t3", "nano">>, <<"t3", "small">>, <<"t3", "medium">>,
             <<"m5", "large">>, <<"m5", "xlarge">>, <<"m5", "4xlarge">>,
             <<"x1", "32xlarge">> }

\* CPU_THRESHOLD_HIGH / CPU_THRESHOLD_LOW: the defaults, another ordered
\* pair, and a pair with low >= high.
ThresholdConfigs == { <<80, 10>>, <<90, 20>>, <<50, 85>> }

AzSkus == {"Standard_B1s", "Standard_B2s", "Standard_B20ms", "Standard_D2s_v3"}

InitAwsRightSizing ==
    /\ prog = "aws_right_sizing"
    /\ pc = "analyze"
    /\ \E t \in ThresholdConfigs :
         /\ CPU_THRESHOLD_HIGH = t[1]
         /\ CPU_THRESHOLD_LOW = t[2]
    /\ \E ty \in RsTypes, tg \in RsTagDicts, c \in CpuSeries, m \in MemorySeries :
         rs_instances = << [instance_id |-> 1, instance_type |-> ty, tags |-> tg,
                            cpu |-> c, memory |-> m] >>
    /\ rs_idx = 1
    /\ rs_last = [called |-> FALSE]
    /\ recommendations = <<>>
    /\ report = None
    /\ RestRs

InitAzRightSizing ==
    /\ prog = "azure_right_sizing"
    /\ pc = "analyze"
    /\ CPU_THRESHOLD_HIGH = 0
    /\ CPU_THRESHOLD_LOW = 0
    /\ \E kd \in {"VM Scale Set", "Virtual Machine"}, sk \in AzSkus, tg \in RsTagDicts,
          c \in CpuSeries, r \in BOOLEAN :
         rs_instances = << [name |-> 1, kind |-> kd, sku |-> sk, tags |-> tg,
                            cpu |-> c, memory |-> <<>>, raises |-> r] >>
    /\ rs_idx = 1
    /\ rs_last = [called |-> FALSE]
    /\ recommendations = <<>>
    /\ report = None
    /\ RestRs

InitRightSizing == InitAwsRightSizing \/ InitAzRightSizing
NextRightSizing ==
    \/ RsAnalyze
    \/ RsReport
    \/ AzRsAnalyze
    \/ AzRsFinish
SpecRightSizing == InitRightSizing /\ [][NextRightSizing]_vars

-----------------------------------------------------------------------------
(* calculate_savings on its own: any pair of instance types                *)

AllTypes == {<<f, sizes[k]>> : f \in {"t3", "m5", "x1"}, k \in DOMAIN sizes}

InitSavings ==
    /\ prog = "calculate_savings"
    /\ pc = "call"
    /\ sv_current \in AllTypes
    /\ sv_recommended \in AllTypes
    /\ sv_ret = 0
    /\ RestSv

SavingsCall ==
    /\ prog = "calculate_savings"
    /\ pc = "call"
    /\ sv_ret' = calculate_savings(sv_current, sv_recommended)
    /\ pc' = "done"
    /\ UNCHANGED <<prog, sv_current, sv_recommended, notSv>>

NextSavings == SavingsCall
SpecSavings == InitSavings /\ [][NextSavings]_vars

-----------------------------------------------------------------------------
(* Right-sizing over a batch of resources                                  *)

MaxBatch == 3

\* Per-resource profiles: types of the middle and of the top of the list and
\* one without a size part; no samples (also what a failed metric query
\* gives), low, middle and high CPU.
BatchTypes == { <<"t3", "medium">>, <<"t3", "small">>, <<"m5", "4xlarge">>, <<"metal">> }
BatchCpu == { <<>>, <<5>>, <<50>>, <<85>> }
AwsProfiles == [instance_type : BatchTypes, cpu : BatchCpu]
AzProfiles ==
    [sku : {"Standard_B2s"}, cpu : {<<>>, <<5>>, <<95>>}, raises : {FALSE}]
    \cup [sku : {"Standard_B1s", "Standard_B2s"}, cpu : {<<50>>}, raises : {FALSE}]
    \cup [sku : {"Standard_B2s"}, cpu : {<<5>>, <<95>>}, raises : {TRUE}]

InitAwsBatch ==
    /\ prog = "aws_right_sizing"
    /\ pc = "analyze"
    /\ CPU_THRESHOLD_HIGH = 80
    /\ CPU_THRESHOLD_LOW = 10
    /\ \E n \in 1..MaxBatch : \E f \in [1..n -> AwsProfiles] :
         rs_instances = [k \in 1..n |->
                           [instance_id |-> k, instance_type |-> f[k].instance_type,
                            tags |-> {}, cpu |-> f[k].cpu, memory |-> <<>>]]
    /\ rs_idx = 1
    /\ rs_last = [called |-> FALSE]
    /\ recommendations = <<>>
    /\ report = None
    /\ RestRs

\* The scale sets are analysed before the virtual machines.
InitAzBatch ==
    /\ prog = "azure_right_sizing"
    /\ pc = "analyze"
    /\ CPU_THRESHOLD_HIGH = 0
    /\ CPU_THRESHOLD_LOW = 0
    /\ \E n \in 1..MaxBatch : \E f \in [1..n -> AzProfiles], nv \in 0..n :
         rs_instances = [k \in 1..n |->
                           [name |-> k,
                            kind |-> IF k <= nv THEN "VM Scale Set" ELSE "Virtual Machine",
                            sku |-> f[k].sku, tags |-> {}, cpu |-> f[k].cpu,
                            memory |-> <<>>, raises |-> f[k].raises]]
    /\ rs_idx = 1
    /\ rs_last = [called |-> FALSE]
    /\ recommendations = <<>>
    /\ report = None
    /\ RestRs

InitBatch == InitAwsBatch \/ InitAzBatch
SpecBatch == InitBatch /\ [][NextRightSizing]_vars

-----------------------------------------------------------------------------
(* The size ladders queried on their own                                   *)

LadderTiers ==
    [aws |-> {sizes[k] : k \in DOMAIN sizes} \cup {"8xlarge", "metal", ""},
     azure |-> {sku_ladder[k] : k \in DOMAIN sku_ladder}
               \cup {"Standard_D2s_v3", "Standard_B1ls", ""}]

nextLarger(ladder, t) ==
    IF ladder = "aws" THEN get_next_size_up(t) ELSE sku_info_next(t)
nextSmaller(ladder, t) ==
    IF ladder = "aws" THEN get_next_size_down(t) ELSE sku_info_prev(t)

InitLadder ==
    /\ prog = "ladder"
    /\ pc = "down"
    /\ ld_ladder \in {"aws", "azure"}
    /\ ld_tier \in LadderTiers[ld_ladder]
    /\ ld_down = None
    /\ ld_up = None
    /\ ld_up_of_down = None
    /\ ld_down_of_up = None
    /\ RestLd

LadderDown ==
    /\ prog = "ladder" /\ pc = "down"
    /\ ld_down' = nextSmaller(ld_ladder, ld_tier)
    /\ pc' = "up_of_down"
    /\ UNCHANGED <<prog, ld_ladder, ld_tier, ld_up, ld_up_of_down, ld_down_of_up, notLd>>

LadderUpOfDown ==
    /\ prog = "ladder" /\ pc = "up_of_down"
    /\ ld_up_of_down' = IF ld_down # None THEN nextLarger(ld_ladder, ld_down) ELSE None
    /\ pc' = "up"
    /\ UNCHANGED <<prog, ld_ladder, ld_tier, ld_down, ld_up, ld_down_of_up, notLd>>

LadderUp ==
    /\ prog = "ladder" /\ pc = "up"
    /\ ld_up' = nextLarger(ld_ladder, ld_tier)
    /\ pc' = "down_of_up"
    /\ UNCHANGED <<prog, ld_ladder, ld_tier, ld_down, ld_up_of_down, ld_down_of_up, notLd>>

LadderDownOfUp ==
    /\ prog = "ladder" /\ pc = "down_of_up"
    /\ ld_down_of_up' = IF ld_up # None THEN nextSmaller(ld_ladder, ld_up) ELSE None
    /\ pc' = "done"
    /\ UNCHANGED <<prog, ld_ladder, ld_tier, ld_down, ld_up, ld_up_of_down, notLd>>

NextLadder == LadderDown \/ LadderUpOfDown \/ LadderUp \/ LadderDownOfUp
SpecLadder == InitLadder /\ [][NextLadder]_vars

LadderOf(ladder) == IF ladder = "aws" THEN sizes ELSE sku_ladder

\* C11: on both ladders, the next larger tier of the next smaller tier of t is
\* t and the next smaller tier of the next larger tier of t is t, whenever the
\* inner tier exists; the lowest tier has no smaller tier, the highest no
\* larger tier, and a tier outside the ladder has neither.
C11_LadderRoundTrip ==
    (prog = "ladder" /\ pc = "done") =>
        LET L == LadderOf(ld_ladder)
            i == IndexOf(L, ld_tier)
        IN /\ ld_down # None => ld_up_of_down = ld_tier
           /\ ld_up # None => ld_down_of_up = ld_tier
           /\ i = 1 => ld_down = None
           /\ i = Len(L) => ld_up = None
           /\ i = 0 => (ld_down = None /\ ld_up = None)
           /\ i > 1 => ld_down = L[i - 1]
           /\ (i > 0 /\ i < Len(L)) => ld_up = L[i + 1]

\* A middle tier of the AWS list went down and back up, and up and back down.
C11_Witness ==
    /\ prog = "ladder" /\ pc = "done"
    /\ ld_ladder = "aws" /\ ld_tier = "medium"
    /\ ld_down = "small" /\ ld_up_of_down = "medium"
    /\ ld_up = "large" /\ ld_down_of_up = "medium"

-----------------------------------------------------------------------------
(* Properties of right-sizing                                              *)

HasField(rec, name) == name \in DOMAIN rec
Priced(instance_type) ==
    instance_type \in { <<"t3", "micro">>, <<"t3", "small">>, <<"t3", "medium">>,
                        <<"m5", "large">>, <<"m5", "xlarge">> }

\* The resources analysed so far, and what is known about resource k.
AnalysedAws == IF prog = "aws_right_sizing" THEN 1..(rs_idx - 1) ELSE {}
AnalysedAz == IF prog = "azure_right_sizing" THEN 1..(rs_idx - 1) ELSE {}
HasData(k) == rs_instances[k].cpu # <<>>
MeanOf(k) == Mean(rs_instances[k].cpu)
MaxOf(k) == Max(rs_instances[k].cpu)
SizeOf(k) == rs_instances[k].instance_type[2]
FamilyOf(k) == rs_instances[k].instance_type[1]
InLadder(k) == IndexOf(sku_ladder, rs_instances[k].sku) # 0

\* The classifier's return value for the resource analysed last.
Last == rs_idx - 1
LastRec == rs_last.rec

\* The upsize condition of the specification: mean above cpuHigh, or max
\* above the ceiling of 90.
UpsizeRuleAws(k) ==
    HasData(k) /\ (Above(MeanOf(k), CPU_THRESHOLD_HIGH) \/ MaxOf(k) > 90)
UpsizeRuleAz(k) ==
    HasData(k) /\ (Above(MeanOf(k), 80) \/ MaxOf(k) > 90)

AwsEntriesOf(k) ==
    {j \in DOMAIN recommendations :
        recommendations[j].instance_id = rs_instances[k].instance_id}
AzEntriesOf(k) ==
    {j \in DOMAIN recommendations :
        recommendations[j].resource_name = rs_instances[k].name}

\* C2: a resource tagged Environment=prod gets no downsize or upsize
\* recommendation from right-sizing analysis.
C2_ProdNeverResized ==
    /\ \A k \in AnalysedAws :
         IsProd(rs_instances[k].tags) => AwsEntriesOf(k) = {}
    /\ \A k \in AnalysedAz :
         IsProd(rs_instances[k].tags) =>
            \A j \in AzEntriesOf(k) :
               recommendations[j].recommendation.action \notin {"downsize", "upsize"}

\* C5: whenever the mean exceeds cpuHigh or the max exceeds 90, and a larger
\* tier exists, the classifier returns upsize to the next larger tier with
\* confidence high and savings 0.
C5_UpsizeOnMeanOrMax ==
    /\ \A k \in AnalysedAws :
         (k = Last /\ CPU_THRESHOLD_LOW < CPU_THRESHOLD_HIGH /\ UpsizeRuleAws(k)
            /\ get_next_size_up(SizeOf(k)) # None) =>
               /\ rs_last.called
               /\ LastRec.recommended_type = <<FamilyOf(k), get_next_size_up(SizeOf(k))>>
               /\ LastRec.confidence = "High"
               /\ LastRec.savings = 0
    /\ \A k \in AnalysedAz :
         (k = Last /\ ~rs_instances[k].raises /\ UpsizeRuleAz(k) /\ InLadder(k)
            /\ sku_next(rs_instances[k].sku) # None) =>
               /\ rs_last.called
               /\ LastRec.action = "upsize"
               /\ LastRec.recommended_sku = sku_next(rs_instances[k].sku)
               /\ HasField(LastRec, "confidence")
               /\ HasField(LastRec, "savings")

\* C6: when the upsize condition holds for a resource at the largest tier, the
\* finished batch holds a flag-for-review entry with confidence high for it.
C6_FlagAtLargestTier ==
    (pc = "done") =>
        /\ \A k \in AnalysedAws :
             (CPU_THRESHOLD_LOW < CPU_THRESHOLD_HIGH /\ UpsizeRuleAws(k)
                /\ IndexOf(sizes, SizeOf(k)) = Len(sizes)) =>
                \E j \in AwsEntriesOf(k) : recommendations[j].confidence = "High"
        /\ \A k \in AnalysedAz :
             (~rs_instances[k].raises /\ UpsizeRuleAz(k)
                /\ rs_instances[k].sku = sku_ladder[Len(sku_ladder)]) =>
                \E j \in AzEntriesOf(k) :
                   /\ recommendations[j].recommendation.action = "monitor"
                   /\ HasField(recommendations[j].recommendation, "confidence")

\* C7: when the upsize rule does not fire and the mean is below
\* cpuLow, the classifier returns downsize to the next smaller tier with
\* confidence medium (no memory data), or none when there is no smaller tier.
C7_DownsizeBelowCpuLow ==
    /\ \A k \in AnalysedAws :
         (k = Last /\ HasData(k) /\ CPU_THRESHOLD_LOW < CPU_THRESHOLD_HIGH
            /\ ~UpsizeRuleAws(k)
            /\ Below(MeanOf(k), CPU_THRESHOLD_LOW)) =>
               IF get_next_size_down(SizeOf(k)) # None
               THEN /\ LastRec.recommended_type = <<FamilyOf(k), get_next_size_down(SizeOf(k))>>
                    /\ LastRec.reason[1] = "Low CPU utilization - scale down"
                    /\ rs_instances[k].memory = <<>> => LastRec.confidence = "Medium"
               ELSE LastRec.recommended_type = rs_instances[k].instance_type
    /\ \A k \in AnalysedAz :
         (k = Last /\ ~rs_instances[k].raises /\ HasData(k) /\ InLadder(k)
            /\ ~UpsizeRuleAz(k) /\ Below(MeanOf(k), 10)) =>
               IF sku_prev(rs_instances[k].sku) # None
               THEN /\ LastRec.action = "downsize"
                    /\ LastRec.recommended_sku = sku_prev(rs_instances[k].sku)
                    /\ HasField(LastRec, "confidence")
               ELSE LastRec.action = "optimal"

\* The Azure classifier on a low mean with one burst of at least 40.
C7_AzureBurst ==
    /\ prog = "azure_right_sizing" /\ rs_idx = 2 /\ rs_last.called
    /\ Below(MeanOf(1), 10) /\ MaxOf(1) >= 40 /\ ~UpsizeRuleAz(1)
    /\ sku_prev(rs_instances[1].sku) # None
    /\ LastRec.action = "optimal"

\* C9: with cpuLow < cpuHigh, a profile whose mean lies strictly between the
\* two and whose max is at most the ceiling gets action none, with or without
\* memory data (AWS: the configured thresholds; Azure: 20, 80 and 90).
C9_BetweenThresholdsIsNone ==
    /\ \A k \in AnalysedAws :
         (k = Last /\ HasData(k) /\ CPU_THRESHOLD_LOW < CPU_THRESHOLD_HIGH
            /\ Above(MeanOf(k), CPU_THRESHOLD_LOW) /\ Below(MeanOf(k), CPU_THRESHOLD_HIGH)
            /\ MaxOf(k) <= 90) =>
               /\ rs_last.called
               /\ LastRec.recommended_type = rs_instances[k].instance_type
               /\ LastRec.reason[1] = "No change recommended"
               /\ LastRec.savings = 0
               /\ AwsEntriesOf(k) = {}
    /\ \A k \in AnalysedAz :
         (k = Last /\ ~rs_instances[k].raises /\ HasData(k) /\ InLadder(k)
            /\ Above(MeanOf(k), 20) /\ Below(MeanOf(k), 80) /\ MaxOf(k) <= 90) =>
               /\ rs_last.called
               /\ LastRec.action = "optimal"
               /\ AzEntriesOf(k) = {}

\* An AWS instance between the thresholds, with high memory utilization.
C9_Witness ==
    /\ prog = "aws_right_sizing" /\ pc = "done" /\ rs_last.called
    /\ CPU_THRESHOLD_LOW < CPU_THRESHOLD_HIGH
    /\ Above(MeanOf(1), CPU_THRESHOLD_LOW) /\ Below(MeanOf(1), CPU_THRESHOLD_HIGH)
    /\ MaxOf(1) <= 90
    /\ rs_instances[1].memory = <<90>>
    /\ recommendations = <<>>

C10_AzureBoth ==
    /\ prog = "azure_right_sizing" /\ rs_idx = 2 /\ rs_last.called
    /\ Below(MeanOf(1), 20) /\ MaxOf(1) > 90
    /\ LastRec.action = "upsize"

\* C8: for two types of the pricing table, calculate_savings returns
\* (current rate - target rate) * 24 * 30 when that is positive and 0
\* otherwise; t3.medium to t3.small gives 14.98 to the cent.
C8_SavingsFormula ==
    (prog = "calculate_savings" /\ pc = "done"
       /\ Priced(sv_current) /\ Priced(sv_recommended)) =>
        LET d == hourly_rates_get(sv_current) - hourly_rates_get(sv_recommended)
        IN /\ sv_ret = IF d > 0 THEN d * 720 ELSE 0
           /\ (sv_current = <<"t3", "medium">> /\ sv_recommended = <<"t3", "small">>) =>
                 Round2(sv_ret) = 149800

C8_Witness ==
    /\ prog = "calculate_savings" /\ pc = "done"
    /\ sv_current = <<"t3", "medium">> /\ sv_recommended = <<"t3", "small">>
    /\ Round2(sv_ret) = 149800

\* C12: when the current or the target type of a recommendation is missing
\* from the pricing table, the recommendation has savings 0 and confidence low.
C12_MissingRateNoSavings ==
    \A k \in AnalysedAws :
        (k = Last /\ rs_last.called /\ CPU_THRESHOLD_LOW < CPU_THRESHOLD_HIGH
           /\ (~Priced(rs_instances[k].instance_type) \/ ~Priced(LastRec.recommended_type))) =>
              /\ LastRec.savings = 0
              /\ LastRec.confidence = "Low"

\* C13: with any memory average the classifier returns the recommended type
\* and savings it returns with no memory data, and a confidence that is the
\* same or raised from medium to high.
C13_MemoryKeepsDecision ==
    \A k \in AnalysedAws :
        (k = Last /\ rs_last.called /\ CPU_THRESHOLD_LOW < CPU_THRESHOLD_HIGH) =>
            LET cpu_only == get_right_sizing_recommendation(
                                rs_instances[k].instance_type, MeanOf(k), NoMean)
            IN /\ LastRec.recommended_type = cpu_only.recommended_type
               /\ LastRec.savings = cpu_only.savings
               /\ \/ LastRec.confidence = cpu_only.confidence
                  \/ cpu_only.confidence = "Medium" /\ LastRec.confidence = "High"

\* The part of C13 the classifier keeps: memory data changes neither the
\* recommended type nor the savings, and never lowers the confidence.
C13_MemoryKeepsTypeAndSavings ==
    \A k \in AnalysedAws :
        (k = Last /\ rs_last.called) =>
            LET cpu_only == get_right_sizing_recommendation(
                                rs_instances[k].instance_type, MeanOf(k), NoMean)
            IN /\ LastRec.recommended_type = cpu_only.recommended_type
               /\ LastRec.savings = cpu_only.savings
               /\ LastRec.confidence \in {cpu_only.confidence, "High"}

-----------------------------------------------------------------------------
(* Properties of a batch                                                   *)

Range(seq) == {seq[j] : j \in DOMAIN seq}

\* What the analysis of resource k alone puts in the list.
AwsEntriesAlone(k) ==
    LET r == analyze_instance(rs_instances[k])
    IN IF r.some THEN {r.entry} ELSE {}
AzEntriesAlone(k) ==
    LET resource == rs_instances[k]
        utilization == get_vm_utilization(resource.cpu, resource.memory)
        recommendation == az_get_right_sizing_recommendation(resource.sku, utilization)
    IN IF resource.raises \/ utilization.cpu_samples = 0 \/ recommendation.action = "optimal"
       THEN {}
       ELSE {[resource_type |-> resource.kind, resource_name |-> resource.name,
              current_sku |-> resource.sku, utilization |-> utilization,
              recommendation |-> recommendation]}

\* Resource k cannot be analysed: its metric query fails or returns nothing,
\* or its classification raises.
FailsAws(k) == rs_instances[k].cpu = <<>> \/ Len(rs_instances[k].instance_type) < 2
FailsAz(k) == rs_instances[k].raises

\* C14: a run always reaches the end of the batch, and the entries recorded
\* for a resource are those of its analysis alone, whatever happened to the
\* other resources of the batch.
C14_FailureIsIsolated ==
    /\ (prog = "aws_right_sizing" /\ pc = "done") =>
          /\ rs_idx = Len(rs_instances) + 1
          /\ \A k \in DOMAIN rs_instances :
                {e \in Range(recommendations) : e.instance_id = k} = AwsEntriesAlone(k)
          /\ report.recommendations = recommendations
    /\ (prog = "azure_right_sizing" /\ pc = "done") =>
          /\ rs_idx = Len(rs_instances) + 1
          /\ \A k \in DOMAIN rs_instances :
                {e \in Range(recommendations) : e.resource_name = k} = AzEntriesAlone(k)

\* The first resource of a finished AWS batch could not be analysed and the
\* second one has its recommendation in the report.
C14_Witness ==
    /\ prog = "aws_right_sizing" /\ pc = "done"
    /\ Len(rs_instances) >= 2
    /\ FailsAws(1) /\ Len(rs_instances[1].instance_type) < 2
    /\ \E e \in Range(report.recommendations) :
          e.instance_id = 2 /\ e.recommended_type = <<"t3", "small">>

\* The same with an Azure resource whose analysis raised.
C14_AzureWitness ==
    /\ prog = "azure_right_sizing" /\ pc = "done"
    /\ Len(rs_instances) >= 2
    /\ FailsAz(1)
    /\ \E e \in Range(recommendations) : e.resource_name = 2

\* C15: a resource whose CPU sample set is empty has, in the finished batch,
\* a flag-for-review entry with reason "insufficient data".
C15_EmptySamplesFlagged ==
    /\ (prog = "aws_right_sizing" /\ pc = "done") =>
          \A k \in DOMAIN rs_instances :
             rs_instances[k].cpu = <<>> =>
                \E e \in Range(recommendations) :
                   e.instance_id = k /\ "insufficient data" \in Range(e.reason)
    /\ (prog = "azure_right_sizing" /\ pc = "done") =>
          \A k \in DOMAIN rs_instances :
             (rs_instances[k].cpu = <<>> /\ ~rs_instances[k].raises) =>
                \E e \in Range(recommendations) :
                   e.resource_name = k /\ e.recommendation.reason = "insufficient data"

\* C16: the finished batch has at least one entry for every input resource.
C16_BatchIsTotal ==
    /\ (prog = "aws_right_sizing" /\ pc = "done") =>
          \A k \in DOMAIN rs_instances :
             \E e \in Range(report.recommendations) : e.instance_id = k
    /\ (prog = "azure_right_sizing" /\ pc = "done") =>
          \A k \in DOMAIN rs_instances :
             \E e \in Range(recommendations) : e.resource_name = k

\* C17: the report's total savings are the sum, rounded to the cent, of the
\* estimated savings of the entries that resize an instance (every entry of
\* the report does), and its count is the number of its entries.
SumOver(S, f(_)) ==
    LET RECURSIVE Acc(_)
        Acc(T) == IF T = {} THEN 0
                  ELSE LET x == CHOOSE y \in T : TRUE IN f(x) + Acc(T \ {x})
    IN Acc(S)
ResizeEntries ==
    {j \in DOMAIN report.recommendations :
        report.recommendations[j].recommended_type # report.recommendations[j].current_type}
EntrySavings(j) == report.recommendations[j].estimated_savings
C17_ReportTotals ==
    (prog = "aws_right_sizing" /\ pc = "done") =>
        /\ report.total_savings = Round2(SumOver(ResizeEntries, EntrySavings))
        /\ report.total_recommendations = Len(report.recommendations)
        /\ report.recommendations = recommendations

\* Two downsized instances whose savings add up to 22.464: 22.46 to the cent.
C17_Witness ==
    /\ prog = "aws_right_sizing" /\ pc = "done"
    /\ report.total_recommendations = 2
    /\ SumOver(ResizeEntries, EntrySavings) = 224640
    /\ report.total_savings = 224600

-----------------------------------------------------------------------------
(* azure-functions/cleanup.py                                              *)

\* A disk is [name, disk_state]; disk_state "<missing>" stands for a disk
\* object without the attribute.  A VM names the disks it uses by their names
\* (os_disk 0: no managed OS disk).
Names(seq) == [k \in DOMAIN seq |-> seq[k].name]

\* Lines 37-55: some VM uses the disk as OS disk or as data disk.
is_attached(disk, vms) ==
    \E k \in DOMAIN vms :
        /\ vms[k].storage_profile
        /\ \/ vms[k].os_disk = disk.name
           \/ disk.name \in vms[k].data_disks

\* find_unattached_disks.  virtual_machines.list is called for the first disk
\* that is not 'Attached'; when it raises, the except clause returns the list
\* built so far, which is still empty.
find_unattached_disks(disks, vms, vms_raise) ==
    LET Candidate(disk) ==
            /\ (disk.disk_state = "<missing>" \/ disk.disk_state # "Attached")
            /\ ~is_attached(disk, vms)
    IN IF vms_raise THEN <<>> ELSE Names(SelectSeq(disks, Candidate))

RetentionDays == 30         \* age_days > 30

\* Line 80: (now - time_created).days, the whole days of a difference kept
\* in hours, and 0 without a creation time.
age_days(snapshot) ==
    IF snapshot.has_time THEN snapshot.age_hours \div 24 ELSE 0

\* find_unused_snapshots
find_unused_snapshots(snapshots) ==
    LET Candidate(snapshot) ==
            /\ age_days(snapshot) > RetentionDays
            /\ Lower(TagGetOrEmpty(snapshot.tags, "Retention")) # "permanent"
    IN Names(SelectSeq(snapshots, Candidate))

\* find_idle_vms
find_idle_vms(vms) ==
    LET Idle(vm) ==
            /\ vm.power_state \in {"deallocated", "stopped"}
            /\ Lower(TagGetOrEmpty(vm.tags, "AutoShutdown")) # "false"
    IN Names(SelectSeq(vms, Idle))

\* os.environ.get(name, default) of a variable that is None when unset.
EnvironGet(value, default) == IF value = None THEN default ELSE value

\* Line 146 with the comparison inverted.
DryRunOfInverted(env) == Lower(EnvironGet(env, "true")) # "true"

\* Line 146: os.environ.get('DRY_RUN', 'true').lower() == 'true'
DryRunOf(env) == Lower(EnvironGet(env, "true")) = "true"

\* cleanup_resources up to line 173: the environment and the three finders.
ClFind ==
    /\ prog = "cleanup_resources"
    /\ pc = "find"
    /\ unattached_disks' = find_unattached_disks(cl_disks, cl_vms, cl_vms_raise)
    /\ unused_snapshots' = find_unused_snapshots(cl_snapshots)
    /\ idle_vms' = find_idle_vms(cl_vms)
    /\ dry_run' = DryRunOf(DRY_RUN)
    /\ pc' = IF dry_run' THEN "summary" ELSE "delete_disks"
    /\ cl_idx' = 1
    /\ UNCHANGED <<prog, DRY_RUN, cl_disks, cl_vms, cl_vms_raise, cl_snapshots,
                   delete_calls, notCl>>

\* Lines 178-183: one disks.delete, which may fail.
ClDeleteDisk ==
    /\ prog = "cleanup_resources"
    /\ pc = "delete_disks"
    /\ cl_idx <= Len(unattached_disks)
    /\ \E ok \in BOOLEAN :
         delete_calls' = Append(delete_calls,
                                [kind |-> "disk", name |-> unattached_disks[cl_idx],
                                 ok |-> ok])
    /\ cl_idx' = cl_idx + 1
    /\ UNCHANGED <<prog, pc, DRY_RUN, dry_run, cl_disks, cl_vms, cl_vms_raise, cl_snapshots,
                   unattached_disks, unused_snapshots, idle_vms, notCl>>

ClDisksDeleted ==
    /\ prog = "cleanup_resources"
    /\ pc = "delete_disks"
    /\ cl_idx > Len(unattached_disks)
    /\ pc' = "delete_snapshots"
    /\ cl_idx' = 1
    /\ UNCHANGED <<prog, DRY_RUN, dry_run, cl_disks, cl_vms, cl_vms_raise, cl_snapshots,
                   unattached_disks, unused_snapshots, idle_vms, delete_calls, notCl>>

\* Lines 186-191: one snapshots.delete, which may fail.
ClDeleteSnapshot ==
    /\ prog = "cleanup_resources"
    /\ pc = "delete_snapshots"
    /\ cl_idx <= Len(unused_snapshots)
    /\ \E ok \in BOOLEAN :
         delete_calls' = Append(delete_calls,
                                [kind |-> "snapshot", name |-> unused_snapshots[cl_idx],
                                 ok |-> ok])
    /\ cl_idx' = cl_idx + 1
    /\ UNCHANGED <<prog, pc, DRY_RUN, dry_run, cl_disks, cl_vms, cl_vms_raise, cl_snapshots,
                   unattached_disks, unused_snapshots, idle_vms, notCl>>

ClSnapshotsDeleted ==
    /\ prog = "cleanup_resources"
    /\ pc = "delete_snapshots"
    /\ cl_idx > Len(unused_snapshots)
    /\ pc' = "summary"
    /\ UNCHANGED <<prog, DRY_RUN, dry_run, cl_disks, cl_vms, cl_vms_raise, cl_snapshots,
                   unattached_disks, unused_snapshots, idle_vms, cl_idx, delete_calls,
                   notCl>>

\* Lines 193-199 with a delete of every listed VM added.
ClSummaryDeletingVms ==
    /\ prog = "cleanup_resources"
    /\ pc = "summary"
    /\ pc' = "done"
    /\ delete_calls' =
          IF dry_run THEN delete_calls
          ELSE delete_calls \o [k \in DOMAIN idle_vms |->
                                  [kind |-> "vm", name |-> idle_vms[k], ok |-> TRUE]]
    /\ UNCHANGED <<prog, DRY_RUN, dry_run, cl_disks, cl_vms, cl_vms_raise, cl_snapshots,
                   unattached_disks, unused_snapshots, idle_vms, cl_idx, notCl>>

\* Lines 193-199: the VMs are only listed; the summary is logged.
ClSummary ==
    /\ prog = "cleanup_resources"
    /\ pc = "summary"
    /\ pc' = "done"
    /\ UNCHANGED <<prog, DRY_RUN, dry_run, cl_disks, cl_vms, cl_vms_raise, cl_snapshots,
                   unattached_disks, unused_snapshots, idle_vms, cl_idx, delete_calls,
                   notCl>>

MaxDisks == 2
MaxVms == 2
MaxSnapshots == 2

Numbered(f) == [k \in DOMAIN f |-> [name |-> k] @@ f[k]]
ListsOf(Profiles, n) ==
    UNION {{Numbered(f) : f \in [1..k -> Profiles]} : k \in 0..n}

ClInitRest ==
    /\ unattached_disks = <<>>
    /\ unused_snapshots = <<>>
    /\ idle_vms = <<>>
    /\ cl_idx = 0
    /\ delete_calls = <<>>
    /\ RestCl

\* The whole handler on small resource groups.
RunDiskProfiles == [disk_state : {"Unattached", "Attached"}]
RunVmProfiles ==
    [storage_profile : {TRUE}, os_disk : {0}, data_disks : {{}},
     power_state : {"running", "stopped", "deallocated"}, tags : {{}}]
    \cup [storage_profile : {TRUE}, os_disk : {0}, data_disks : {{}},
          power_state : {"deallocated"}, tags : {{<<"AutoShutdown", "False">>}}]
RunSnapshotProfiles ==
    [has_time : {TRUE}, age_hours : {0, 960}, tags : {{}}]

\* Values of DRY_RUN in the environment.
DryRunSettings == {None, "true", "True", "TRUE", "false", "0"}

InitCleanup ==
    /\ prog = "cleanup_resources"
    /\ pc = "find"
    /\ DRY_RUN \in DryRunSettings
    /\ dry_run = TRUE
    /\ cl_disks \in ListsOf(RunDiskProfiles, MaxDisks)
    /\ cl_vms \in ListsOf(RunVmProfiles, MaxVms)
    /\ cl_vms_raise = FALSE
    /\ cl_snapshots \in ListsOf(RunSnapshotProfiles, MaxSnapshots)
    /\ ClInitRest

NextCleanup ==
    \/ ClFind
    \/ ClDeleteDisk
    \/ ClDisksDeleted
    \/ ClDeleteSnapshot
    \/ ClSnapshotsDeleted
    \/ ClSummary
SpecCleanup == InitCleanup /\ [][NextCleanup]_vars

\* find_unattached_disks called on its own.
DiskProfiles == [disk_state : {"Attached", "Unattached", "ActiveUpload", "<missing>"}]
DiskUserProfiles ==
    [storage_profile : {TRUE}, os_disk : {0, 1, 2}, data_disks : {{}, {1}, {2}},
     power_state : {"running"}, tags : {{}}]
    \cup [storage_profile : {FALSE}, os_disk : {0}, data_disks : {{}},
          power_state : {"running"}, tags : {{}}]

InitDisks ==
    /\ prog = "find_unattached_disks"
    /\ pc = "call"
    /\ DRY_RUN = None
    /\ dry_run = TRUE
    /\ cl_disks \in ListsOf(DiskProfiles, MaxDisks)
    /\ cl_vms \in ListsOf(DiskUserProfiles, MaxVms)
    /\ cl_vms_raise \in BOOLEAN
    /\ cl_snapshots = <<>>
    /\ ClInitRest

DisksCall ==
    /\ prog = "find_unattached_disks"
    /\ pc = "call"
    /\ unattached_disks' = find_unattached_disks(cl_disks, cl_vms, cl_vms_raise)
    /\ pc' = "done"
    /\ UNCHANGED <<prog, DRY_RUN, dry_run, cl_disks, cl_vms, cl_vms_raise, cl_snapshots,
                   unused_snapshots, idle_vms, cl_idx, delete_calls, notCl>>

NextDisks == DisksCall
SpecDisks == InitDisks /\ [][NextDisks]_vars

\* find_unused_snapshots called on its own: ages of 0 hours, 30 days, 30 days
\* and 1 hour, 31 days less 1 hour, 31 days, 40 days.
SnapshotProfiles ==
    [has_time : {TRUE}, age_hours : {0, 720, 721, 743, 744, 960},
     tags : { {}, {<<"Retention", "permanent">>}, {<<"Retention", "Permanent">>} }]
    \cup [has_time : {FALSE}, age_hours : {0}, tags : {{}}]

InitSnapshots ==
    /\ prog = "find_unused_snapshots"
    /\ pc = "call"
    /\ DRY_RUN = None
    /\ dry_run = TRUE
    /\ cl_disks = <<>>
    /\ cl_vms = <<>>
    /\ cl_vms_raise = FALSE
    /\ cl_snapshots \in ListsOf(SnapshotProfiles, MaxSnapshots)
    /\ ClInitRest

SnapshotsCall ==
    /\ prog = "find_unused_snapshots"
    /\ pc = "call"
    /\ unused_snapshots' = find_unused_snapshots(cl_snapshots)
    /\ pc' = "done"
    /\ UNCHANGED <<prog, DRY_RUN, dry_run, cl_disks, cl_vms, cl_vms_raise, cl_snapshots,
                   unattached_disks, idle_vms, cl_idx, delete_calls, notCl>>

NextSnapshots == SnapshotsCall
SpecSnapshots == InitSnapshots /\ [][NextSnapshots]_vars

-----------------------------------------------------------------------------
(* Properties of cleanup                                                   *)

\* C18: a disk is reported as a delete candidate if and only if its state is
\* detached and no VM uses it as OS disk or data disk.
C18_CandidateIffDetached ==
    (prog = "find_unattached_disks" /\ pc = "done" /\ ~cl_vms_raise) =>
        \A k \in DOMAIN cl_disks :
            (cl_disks[k].name \in Range(unattached_disks)) <=>
                /\ cl_disks[k].disk_state = "Unattached"
                /\ \A v \in DOMAIN cl_vms :
                      /\ cl_vms[v].os_disk # cl_disks[k].name
                      /\ cl_disks[k].name \notin cl_vms[v].data_disks

\* The part of C18 that holds: a disk in state Attached, or used by a VM, is
\* never a candidate, and a detached disk no VM uses is one.
C18_AttachedNeverCandidate ==
    (prog = "find_unattached_disks" /\ pc = "done") =>
        \A k \in DOMAIN cl_disks :
            LET used == \E v \in DOMAIN cl_vms :
                            \/ cl_vms[v].os_disk = cl_disks[k].name
                            \/ cl_disks[k].name \in cl_vms[v].data_disks
            IN /\ (cl_disks[k].disk_state = "Attached" \/ used) =>
                     cl_disks[k].name \notin Range(unattached_disks)
               /\ (cl_disks[k].disk_state = "Unattached" /\ ~used /\ ~cl_vms_raise) =>
                     cl_disks[k].name \in Range(unattached_disks)

\* The snapshot's age in hours exceeds the 30-day window.
OlderThanWindow(snapshot) == snapshot.has_time /\ snapshot.age_hours > 30 * 24

\* C19: a snapshot is a delete candidate if and only if now - createTime is
\* strictly greater than 30 days and its Retention tag is not "permanent".
C19_CandidateIffAged ==
    (prog = "find_unused_snapshots" /\ pc = "done") =>
        \A k \in DOMAIN cl_snapshots :
            (cl_snapshots[k].name \in Range(unused_snapshots)) <=>
                /\ OlderThanWindow(cl_snapshots[k])
                /\ TagGetOrEmpty(cl_snapshots[k].tags, "Retention") # "permanent"

\* The part of C19 that holds: a snapshot aged 30 days or less, or tagged
\* Retention=permanent, is never a candidate, and one aged 31 days or more
\* without a Retention tag is.
C19_YoungNeverCandidate ==
    (prog = "find_unused_snapshots" /\ pc = "done") =>
        \A k \in DOMAIN cl_snapshots :
            /\ (~OlderThanWindow(cl_snapshots[k])
                  \/ TagGetOrEmpty(cl_snapshots[k].tags, "Retention") = "permanent") =>
                   cl_snapshots[k].name \notin Range(unused_snapshots)
            /\ (cl_snapshots[k].has_time /\ cl_snapshots[k].age_hours >= 31 * 24
                  /\ cl_snapshots[k].tags = {}) =>
                   cl_snapshots[k].name \in Range(unused_snapshots)

-----------------------------------------------------------------------------
(* Further properties of right-sizing                                      *)

\* C21: under a configuration with cpuLow >= cpuHigh no resource is
\* classified and no recommendation is produced.
C21_MalformedThresholdsFailFast ==
    (prog = "aws_right_sizing" /\ CPU_THRESHOLD_LOW >= CPU_THRESHOLD_HIGH) =>
        /\ ~rs_last.called
        /\ recommendations = <<>>
        /\ report = None

\* C23: every recommendation emitted carries a numeric saving >= 0 and a
\* confidence of low, medium or high; the saving of an upsize is 0.
C23_EntriesCarrySavingsAndConfidence ==
    /\ (prog = "aws_right_sizing") =>
          \A j \in DOMAIN recommendations :
             /\ recommendations[j].estimated_savings >= 0
             /\ recommendations[j].confidence \in {"Low", "Medium", "High"}
             /\ (recommendations[j].reason[1] = "High CPU utilization - scale up") =>
                    recommendations[j].estimated_savings = 0
    /\ (prog = "azure_right_sizing") =>
          \A j \in DOMAIN recommendations :
             /\ HasField(recommendations[j].recommendation, "confidence")
             /\ HasField(recommendations[j].recommendation, "estimated_savings")

\* The AWS half of C23, which holds.
C23_AwsEntriesCarrySavingsAndConfidence ==
    (prog = "aws_right_sizing") =>
        \A j \in DOMAIN recommendations :
           /\ recommendations[j].estimated_savings >= 0
           /\ recommendations[j].confidence \in {"Low", "Medium", "High"}
           /\ (recommendations[j].reason[1] = "High CPU utilization - scale up") =>
                  recommendations[j].estimated_savings = 0

\* What an entry recommends, without the id of the instance.
Content(e) ==
    [current_type |-> e.current_type, recommended_type |-> e.recommended_type,
     avg_cpu |-> e.avg_cpu, avg_memory |-> e.avg_memory, reason |-> e.reason,
     estimated_savings |-> e.estimated_savings, confidence |-> e.confidence]

\* The analysis of an instance with the same type and samples that is the
\* only instance of its batch.
AnalysedOnItsOwn(instance) == analyze_instance([instance EXCEPT !.instance_id = 0])

\* C25: every entry of the list carries the id of one instance of the batch,
\* no instance has two entries, and what the entry recommends is what an
\* instance of that type with those samples gets on its own, whatever its
\* position in the batch and whatever the other instances are.
C25_EntryDependsOnOwnData ==
    (prog = "aws_right_sizing") =>
        /\ \A j \in DOMAIN recommendations :
              \E k \in 1..(rs_idx - 1) :
                 /\ recommendations[j].instance_id = rs_instances[k].instance_id
                 /\ AnalysedOnItsOwn(rs_instances[k]).some
                 /\ Content(recommendations[j]) =
                       Content(AnalysedOnItsOwn(rs_instances[k]).entry)
        /\ \A i, j \in DOMAIN recommendations :
              recommendations[i].instance_id = recommendations[j].instance_id => i = j
        /\ \A k \in 1..(rs_idx - 1) :
              AnalysedOnItsOwn(rs_instances[k]).some =>
                 \E j \in DOMAIN recommendations :
                    recommendations[j].instance_id = rs_instances[k].instance_id

\* The same type with the same samples at the first and at the last position
\* of a batch of three, with another instance between them: both entries
\* recommend the same.
C25_Witness ==
    /\ prog = "aws_right_sizing" /\ pc = "done"
    /\ Len(rs_instances) = 3
    /\ rs_instances[1].instance_type = <<"t3", "medium">> /\ rs_instances[1].cpu = <<5>>
    /\ rs_instances[2].instance_type = <<"t3", "small">> /\ rs_instances[2].cpu = <<85>>
    /\ rs_instances[3].instance_type = <<"t3", "medium">> /\ rs_instances[3].cpu = <<5>>
    /\ Len(recommendations) = 3
    /\ Content(recommendations[1]) = Content(recommendations[3])
    /\ recommendations[1].instance_id = 1 /\ recommendations[3].instance_id = 3

-----------------------------------------------------------------------------
(* get_vm_utilization on its own                                           *)

UtilCpuSeries == SeqsUpTo({0, 5, 50, 100}, MaxRsSamples)
UtilMemorySeries == SeqsUpTo({0, 50}, MaxRsSamples)

InitUtilization ==
    /\ prog = "get_vm_utilization"
    /\ pc = "call"
    /\ ut_cpu_data \in UtilCpuSeries
    /\ ut_memory_data \in UtilMemorySeries
    /\ ut_ret = None
    /\ RestUt

UtilizationCall ==
    /\ prog = "get_vm_utilization"
    /\ pc = "call"
    /\ ut_ret' = get_vm_utilization(ut_cpu_data, ut_memory_data)
    /\ pc' = "done"
    /\ UNCHANGED <<prog, ut_cpu_data, ut_memory_data, notUt>>

NextUtilization == UtilizationCall
SpecUtilization == InitUtilization /\ [][NextUtilization]_vars

\* A mean [s, n] is a number when n > 0; n = 0 is the "no data" value.
IsNumber(avg) == avg.n > 0
SameNumber(a, b) == IsNumber(a) /\ IsNumber(b) /\ a.s * b.n = b.s * a.n

\* C24: for an empty sample set the summary has a sample count of 0 and a
\* mean and a max that are "no data", not 0; for a non-empty set they are the
\* arithmetic mean and the maximum of the samples.
C24_NoDataIsNotZero ==
    (prog = "get_vm_utilization" /\ pc = "done") =>
        /\ ut_ret.cpu_samples = Len(ut_cpu_data)
        /\ IF ut_cpu_data = <<>>
           THEN /\ ~IsNumber(ut_ret.cpu_avg)
                /\ ut_ret.cpu_max # 0
           ELSE /\ SameNumber(ut_ret.cpu_avg, [s |-> Sum(ut_cpu_data), n |-> Len(ut_cpu_data)])
                /\ \A k \in DOMAIN ut_cpu_data : ut_cpu_data[k] <= ut_ret.cpu_max
                /\ \E k \in DOMAIN ut_cpu_data : ut_cpu_data[k] = ut_ret.cpu_max

\* The part of C24 that holds: the sample count, and the mean and the max of
\* a non-empty sample set.
C24_NonEmptySummary ==
    (prog = "get_vm_utilization" /\ pc = "done") =>
        /\ ut_ret.cpu_samples = Len(ut_cpu_data)
        /\ ut_cpu_data # <<>> =>
              /\ SameNumber(ut_ret.cpu_avg, [s |-> Sum(ut_cpu_data), n |-> Len(ut_cpu_data)])
              /\ \A k \in DOMAIN ut_cpu_data : ut_cpu_data[k] <= ut_ret.cpu_max
              /\ \E k \in DOMAIN ut_cpu_data : ut_cpu_data[k] = ut_ret.cpu_max

-----------------------------------------------------------------------------
(* Further properties of AWS auto-shutdown                                 *)

\* C22: should_exclude_instance returns true or false for every instance and
\* every exclusion-rule list, and never raises.
C22_ExclusionIsTotal ==
    (prog = "aws_auto_shutdown") =>
        \A k \in DOMAIN verdict : verdict[k] # "raised"

\* A run of lambda_handler that returned 200.
AwsRunReturned ==
    /\ prog = "aws_auto_shutdown" /\ pc = "done"
    /\ \A k \in DOMAIN verdict : verdict[k] # "raised"

\* The ids of the stop calls that succeeded, and of those that raised.
SucceededIds == {stop_calls[k][1] : k \in {j \in DOMAIN stop_calls : stop_calls[j][2]}}
FailedIds == {stop_calls[k][1] : k \in {j \in DOMAIN stop_calls : ~stop_calls[j][2]}}

\* hourly rate * 24 * 30 of the instance with an id.
MonthlyRateOf(id) ==
    LET m == CHOOSE n \in DOMAIN instances : instances[n].InstanceId = id
    IN get_instance_hourly_rate(instances[m].InstanceType) * HoursPerDay * DaysPerMonth

\* C26: the result of shutdown_instances describes exactly the instances
\* whose stop call succeeded: their number, the sum of their monthly rates,
\* and their ids in the 'instances' list that the notification sends, with no
\* id of an instance whose stop failed; every idle instance gets its stop
\* attempt whatever happened to the earlier ones.
C26_ResultDescribesSucceeded ==
    AwsRunReturned =>
        /\ Len(stop_calls) = Len(idle_instances)
        /\ shutdown_results.shutdown_count = Cardinality(SucceededIds)
        /\ shutdown_results.estimated_savings = Round2(SumOver(SucceededIds, MonthlyRateOf))
        /\ Range(shutdown_results.instances) = SucceededIds
        /\ notification.sent => Range(notification.instances) = SucceededIds

\* The part of C26 that holds: the count, the savings, and one stop attempt
\* for every idle instance, in order.
C26_CountAndSavings ==
    AwsRunReturned =>
        /\ Len(stop_calls) = Len(idle_instances)
        /\ \A k \in DOMAIN stop_calls : stop_calls[k][1] = idle_instances[k].instance_id
        /\ shutdown_results.shutdown_count = Cardinality(SucceededIds)
        /\ shutdown_results.estimated_savings = Round2(SumOver(SucceededIds, MonthlyRateOf))
        /\ Len(shutdown_results.instances) = shutdown_results.shutdown_count

\* The instance of the run with an id.
InstanceAt(id) == CHOOSE m \in DOMAIN instances : instances[m].InstanceId = id

\* C27: an instance is passed to stop_instances only if it was not excluded
\* and its metric query succeeded and classified it idle; an instance whose
\* metric query raised is never stopped; and every instance is classified
\* before the first stop is issued.
C27_StopOnlyAfterIdleVerdict ==
    (prog = "aws_auto_shutdown") =>
        /\ \A k \in DOMAIN stop_calls :
              /\ \E m \in DOMAIN instances : instances[m].InstanceId = stop_calls[k][1]
              /\ verdict[InstanceAt(stop_calls[k][1])] = "idle"
              /\ ~should_exclude_instance(instances[InstanceAt(stop_calls[k][1])],
                                          EXCLUDED_TAGS).value
        /\ \A m \in DOMAIN instances :
              verdict[m] \in {"query_error", "excluded", "not_idle"} =>
                 \A k \in DOMAIN stop_calls : stop_calls[k][1] # instances[m].InstanceId
        /\ stop_calls # <<>> =>
              \A m \in DOMAIN instances : verdict[m] \notin {"pending", "raised"}

\* A finished run in which the metric query of the first instance raised and
\* the second instance, classified idle, was stopped.
C27_Witness ==
    /\ AwsRunReturned
    /\ Len(instances) = 2
    /\ verdict[1] = "query_error" /\ verdict[2] = "idle"
    /\ stop_calls = << <<instances[2].InstanceId, TRUE>> >>

-----------------------------------------------------------------------------
(* Further properties of cleanup                                           *)

\* DRY_RUN is unset or is "true" in some letter case.
DryRunRequested == DRY_RUN = None \/ DRY_RUN \in {"true", "True", "TRUE"}

\* C28: when DRY_RUN is unset or equals "true" in any letter case, no delete
\* call is issued for any disk or snapshot; otherwise a finished run has made
\* exactly one delete attempt for every disk and snapshot candidate it found,
\* the disks before the snapshots, whether or not earlier attempts failed.
C28_DryRunGuardsDeletes ==
    (prog = "cleanup_resources") =>
        /\ DryRunRequested => delete_calls = <<>>
        /\ (pc = "done" /\ ~DryRunRequested) =>
              /\ Len(delete_calls) = Len(unattached_disks) + Len(unused_snapshots)
              /\ \A k \in DOMAIN unattached_disks :
                    /\ delete_calls[k].kind = "disk"
                    /\ delete_calls[k].name = unattached_disks[k]
              /\ \A k \in DOMAIN unused_snapshots :
                    /\ delete_calls[Len(unattached_disks) + k].kind = "snapshot"
                    /\ delete_calls[Len(unattached_disks) + k].name = unused_snapshots[k]
              /\ \A i, j \in DOMAIN delete_calls :
                    (/\ delete_calls[i].kind = delete_calls[j].kind
                     /\ delete_calls[i].name = delete_calls[j].name) => i = j

\* A finished run with DRY_RUN "false" whose first disk delete failed and
\* that went on to the second disk and to a snapshot.
C28_Witness ==
    /\ prog = "cleanup_resources" /\ pc = "done"
    /\ DRY_RUN = "false"
    /\ Len(unattached_disks) = 2 /\ Len(unused_snapshots) = 1
    /\ Len(delete_calls) = 3
    /\ ~delete_calls[1].ok /\ delete_calls[2].ok /\ delete_calls[3].ok

\* A finished run with DRY_RUN "TRUE" that found candidates and deleted none.
C28_DryRunWitness ==
    /\ prog = "cleanup_resources" /\ pc = "done"
    /\ DRY_RUN = "TRUE"
    /\ Len(unattached_disks) = 2 /\ Len(unused_snapshots) = 1
    /\ delete_calls = <<>>

-----------------------------------------------------------------------------
(* Further properties of Azure auto-shutdown                               *)

\* An instant that is Monday to Friday at or after 18:00.
WeekdayEvening(t) == Times[t].d < FirstWeekendDay /\ Times[t].h >= FirstShutdownHour

\* The resource a power_off call named.
AzResourceOf(c) == az_resources[CHOOSE m \in DOMAIN az_resources : az_resources[m].name = c.name]

\* C29: a VM or scale set is powered off only if its AutoShutdown tag is
\* "true" in some letter case and only if the time is, at one and the same
\* instant, Monday to Friday at or after 18:00, also when the clock advances
\* between the read of the hour and the read of the weekday.
C29_OffOnlyOnWeekdayEvening ==
    \A c \in power_off_calls :
       /\ Lower(TagGetOrEmpty(AzResourceOf(c).tags, "AutoShutdown")) = "true"
       /\ \/ WeekdayEvening(c.read)
          \/ c.d < FirstWeekendDay /\ c.h >= FirstShutdownHour

\* The parts of C29 that hold: the tag, the hour of the instant the tick
\* read, and the weekday of the instant of the call.
C29_TagAndSeparateReads ==
    \A c \in power_off_calls :
       /\ Lower(TagGetOrEmpty(AzResourceOf(c).tags, "AutoShutdown")) = "true"
       /\ Times[c.read].h >= FirstShutdownHour
       /\ c.d < FirstWeekendDay

\* C30: a power-off is issued, and counted, only for a resource whose power
\* state is running at that tick, for VMs and for scale sets alike; a
\* resource already stopped or deallocated gets no further power-off.
C30_OffOnlyWhenRunning ==
    \A c \in power_off_calls : c.was = "running"

\* The VM half of C30, which holds.
C30_VmOffOnlyWhenRunning ==
    \A c \in power_off_calls : AzResourceOf(c).kind = "vm" => c.was = "running"

=============================================================================
